---- MODULE Spec2Model ----
(***************************************************************************)
(* State-machine model of the two SigDigger widgets                        *)
(*   src/Components/PanoramicDialog.cpp  (panoramic sweep dialog)          *)
(*   src/Components/MainSpectrum.cpp     (main spectrum panel)             *)
(*                                                                         *)
(* Every handler of the dialog is a state transformer over the record      *)
(*   [ui, self, cfg, wf, saved, out]                                       *)
(* (widget values, private members, dialogConfig, the waterfall widget,    *)
(* the SavedSpectrum and the signals / message boxes produced by the       *)
(* handler).  Qt delivers signals synchronously, so a setValue() that      *)
(* changes a widget runs the connected slot before it returns: the         *)
(* operators below are composed in exactly that order.                     *)
(*                                                                         *)
(* std::string values that are concatenated or sliced (driver names, gain  *)
(* names, config keys) are sequences of one-character strings.  Frequencies*)
(* are integer Hz; the spin boxes hold integral values.                    *)
(***************************************************************************)
EXTENDS Integers, Sequences, FiniteSets, TLC

(***************************************************************************)
(* Bounds of the model                                                     *)
(***************************************************************************)
MaxFreq == 4
MaxRate == 2
MaxFrames == 2
MaxRetries == 2
MaxGain == 2

(***************************************************************************)
(* Arithmetic helpers: C++ integer division truncates toward zero.         *)
(***************************************************************************)
Abs(x) == IF x < 0 THEN -x ELSE x

CDiv(a, b) == IF a >= 0 THEN a \div b ELSE -((-a) \div b)

Min2(a, b) == IF a < b THEN a ELSE b

Max2(a, b) == IF a > b THEN a ELSE b

Clamp(v, lo, hi) == IF v < lo THEN lo ELSE IF v > hi THEN hi ELSE v

(***************************************************************************)
(* Strings that the code concatenates or slices                            *)
(***************************************************************************)
StrGainDot == <<"g", "a", "i", "n", ".">>

StrDot == <<".">>

StrRtlsdr == <<"r", "t", "l", "s", "d", "r">>

StrAirspy == <<"a", "i", "r", "s", "p", "y">>

StrHackrf == <<"h", "a", "c", "k", "r", "f">>

StrLNA == <<"L", "N", "A">>

StrVGA == <<"V", "G", "A">>

Substr(str, pos, n) ==
  IF pos >= Len(str) THEN <<>>
  ELSE SubSeq(str, pos + 1, Min2(Len(str), pos + n))

(***************************************************************************)
(* The devices the Suscan singleton enumerates.  A and B are two dongles   *)
(* of the same driver, C has no gains and a range that exceeds 2e9, D has  *)
(* no frequency range and is never offered.                                *)
(***************************************************************************)
FreqCap == 2000000000

NoDevice ==
  [desc |-> "", driver |-> <<>>, minFreq |-> 0, maxFreq |-> 0,
   available |-> FALSE, gains |-> <<>>]

DeviceList ==
  << [desc |-> "A", driver |-> StrRtlsdr, minFreq |-> 1, maxFreq |-> MaxFreq,
      available |-> TRUE,
      gains |-> << [name |-> StrLNA, def |-> 1], [name |-> StrVGA, def |-> 0] >>],
     [desc |-> "B", driver |-> StrRtlsdr, minFreq |-> 2, maxFreq |-> 4,
      available |-> TRUE,
      gains |-> << [name |-> StrLNA, def |-> 1] >>],
     [desc |-> "C", driver |-> StrAirspy, minFreq |-> 3, maxFreq |-> 2100000000,
      available |-> TRUE, gains |-> <<>>],
     [desc |-> "D", driver |-> StrHackrf, minFreq |-> 0, maxFreq |-> 0,
      available |-> TRUE,
      gains |-> << [name |-> StrVGA, def |-> 2] >>] >>

LnbValues == {0, 1}

GainValues == 0 .. MaxGain


DataValues == {<<1>>, <<2, 3>>}

(***************************************************************************)
(* State                                                                   *)
(*   ui           widget values of the dialog (Ui::PanoramicDialog)        *)
(*   self         private members of PanoramicDialog                       *)
(*   dialogConfig the PanoramicDialogConfig the dialog owns                *)
(*   waterfall    the waterfall widget, as the dialog drives and reads it  *)
(*   saved        the SavedSpectrum                                        *)
(*   out          signals emitted and boxes shown by the last handler      *)
(*   op           the last handler and its arguments                       *)
(*   runPc        where PanoramicDialog::run() stands                      *)
(*   runStops     stop() signals run() has emitted since it was entered    *)
(***************************************************************************)
VARIABLES ui, self, dialogConfig, waterfall, saved, out, op, runPc, runStops

dlgVars == <<ui, self, dialogConfig, waterfall, saved, out, op, runPc, runStops>>

(* The state a handler works on, and the handler's result put back. *)
Cur ==
  [ui |-> ui, self |-> self, cfg |-> dialogConfig, wf |-> waterfall,
   saved |-> saved, out |-> <<>>]

Becomes(s) ==
  /\ ui' = s.ui
  /\ self' = s.self
  /\ dialogConfig' = s.cfg
  /\ waterfall' = s.wf
  /\ saved' = s.saved
  /\ out' = s.out

Emit(s, sig) == [s EXCEPT !.out = Append(@, sig)]

(***************************************************************************)
(* PanoramicDialogConfig: gains is std::map<std::string, float>            *)
(***************************************************************************)
FullName(dev, name) == StrGainDot \o dev \o StrDot \o name

HasGain(cfg, dev, name) == FullName(dev, name) \in DOMAIN cfg.gains

GetGain(cfg, dev, name) ==
  IF FullName(dev, name) \notin DOMAIN cfg.gains
    THEN 0
    ELSE cfg.gains[FullName(dev, name)]

MapPut(m, k, v) == [x \in DOMAIN m \cup {k} |-> IF x = k THEN v ELSE m[x]]

SetGain(cfg, dev, name, val) ==
  [cfg EXCEPT !.gains = MapPut(@, FullName(dev, name), val)]

EmptyMap == [x \in {} |-> 0]

DefaultConfig ==
  [fullRange |-> TRUE, rangeMin |-> 0, rangeMax |-> 0,
   panRangeMin |-> -60, panRangeMax |-> 0, lnbFreq |-> 0,
   device |-> "", sampRate |-> MaxRate, strategy |-> "", partitioning |-> "",
   palette |-> "Suscan", gains |-> EmptyMap]

(***************************************************************************)
(* Device selection                                                        *)
(***************************************************************************)
CurrentText(s) ==
  IF s.ui.deviceIndex = 0 THEN "" ELSE s.ui.deviceItems[s.ui.deviceIndex]

HasSelectedDevice(s) == CurrentText(s) \in DOMAIN s.self.deviceMap

SelectedDevice(s) ==
  IF HasSelectedDevice(s) THEN s.self.deviceMap[CurrentText(s)] ELSE NoDevice

GetLnbOffset(s) == s.ui.lnbDoubleSpinBox

GetMinFreq(s) == s.ui.rangeStartSpin.value

GetMaxFreq(s) == s.ui.rangeEndSpin.value

GetRelBwPercent(s) == s.ui.relBwSlider

(***************************************************************************)
(* The two range spin boxes.  A QDoubleSpinBox bounds every value it is    *)
(* given, keeps minimum <= maximum, and emits valueChanged (connected to   *)
(* onFreqRangeChanged, i.e. adjustRanges) whenever its value changes.      *)
(***************************************************************************)
RECURSIVE AdjustRanges(_)
RECURSIVE RangeStartSetValue(_, _)
RECURSIVE RangeEndSetValue(_, _)

RangeStartSetValue(s, v) ==
  LET sp == s.ui.rangeStartSpin
      nv == Clamp(v, sp.min, sp.max)
  IN IF nv = sp.value THEN s
     ELSE AdjustRanges([s EXCEPT !.ui.rangeStartSpin.value = nv])

RangeEndSetValue(s, v) ==
  LET sp == s.ui.rangeEndSpin
      nv == Clamp(v, sp.min, sp.max)
  IN IF nv = sp.value THEN s
     ELSE AdjustRanges([s EXCEPT !.ui.rangeEndSpin.value = nv])

AdjustRanges(s) ==
  IF s.ui.rangeStartSpin.value > s.ui.rangeEndSpin.value
    THEN LET val == s.ui.rangeStartSpin.value
         IN RangeEndSetValue(
              RangeStartSetValue(s, s.ui.rangeEndSpin.value), val)
    ELSE s

RangeStartSetMinimum(s, m) ==
  LET sp == s.ui.rangeStartSpin
      s1 == [s EXCEPT !.ui.rangeStartSpin.min = m,
                      !.ui.rangeStartSpin.max = Max2(m, sp.max)]
  IN RangeStartSetValue(s1, sp.value)

RangeStartSetMaximum(s, m) ==
  LET sp == s.ui.rangeStartSpin
      s1 == [s EXCEPT !.ui.rangeStartSpin.min = Min2(m, sp.min),
                      !.ui.rangeStartSpin.max = m]
  IN RangeStartSetValue(s1, sp.value)

RangeEndSetMinimum(s, m) ==
  LET sp == s.ui.rangeEndSpin
      s1 == [s EXCEPT !.ui.rangeEndSpin.min = m,
                      !.ui.rangeEndSpin.max = Max2(m, sp.max)]
  IN RangeEndSetValue(s1, sp.value)

RangeEndSetMaximum(s, m) ==
  LET sp == s.ui.rangeEndSpin
      s1 == [s EXCEPT !.ui.rangeEndSpin.min = Min2(m, sp.min),
                      !.ui.rangeEndSpin.max = m]
  IN RangeEndSetValue(s1, sp.value)

InvalidRange(s) ==
  Abs(s.ui.rangeEndSpin.value - s.ui.rangeStartSpin.value) < 1

SetRangesUnclamped(s, dev) ==
  LET minFreq == dev.minFreq - GetLnbOffset(s)
      maxFreq == dev.maxFreq - GetLnbOffset(s)
      Values(s4) ==
        IF InvalidRange(s4) \/ s4.ui.fullRangeCheck
          THEN RangeEndSetValue(RangeStartSetValue(s4, minFreq), maxFreq)
          ELSE s4
  IN AdjustRanges(Values(
       RangeEndSetMaximum(
         RangeEndSetMinimum(
           RangeStartSetMaximum(
             RangeStartSetMinimum(s, minFreq), maxFreq), minFreq), maxFreq)))

SetRanges(s, dev) ==
  LET minFreq == Clamp(dev.minFreq - GetLnbOffset(s), 0, FreqCap)
      maxFreq == Clamp(dev.maxFreq - GetLnbOffset(s), 0, FreqCap)
      Values(s4) ==
        IF InvalidRange(s4) \/ s4.ui.fullRangeCheck
          THEN RangeEndSetValue(RangeStartSetValue(s4, minFreq), maxFreq)
          ELSE s4
  IN AdjustRanges(Values(
       RangeEndSetMaximum(
         RangeEndSetMinimum(
           RangeStartSetMaximum(
             RangeStartSetMinimum(s, minFreq), maxFreq), minFreq), maxFreq)))

(***************************************************************************)
(* Widgets whose change signals are connected to slots of the dialog       *)
(***************************************************************************)
OnSampleRateSpinChangedAlways(s) ==
  [s EXCEPT !.cfg.sampRate = s.ui.sampleRateSpin]

OnSampleRateSpinChanged(s) ==
  IF ~s.self.running
    THEN [s EXCEPT !.cfg.sampRate = s.ui.sampleRateSpin]
    ELSE s

(* QSpinBox::setValue: bound the value, notify when it changed. *)
SampleRateSpinSetValue(s, v) ==
  LET nv == Clamp(v, 0, MaxRate)
  IN IF nv = s.ui.sampleRateSpin THEN s
     ELSE OnSampleRateSpinChanged([s EXCEPT !.ui.sampleRateSpin = nv])

OnLnbOffsetChanged(s) ==
  IF HasSelectedDevice(s) THEN SetRanges(s, SelectedDevice(s)) ELSE s

LnbSetValue(s, v) ==
  IF v = s.ui.lnbDoubleSpinBox THEN s
  ELSE OnLnbOffsetChanged([s EXCEPT !.ui.lnbDoubleSpinBox = v])

RefreshUi(s) ==
  LET empty == DOMAIN s.self.deviceMap = {}
      fullRange == s.ui.fullRangeCheck
      run == s.self.running
  IN [s EXCEPT
        !.ui.enabled =
           [deviceCombo |-> ~run /\ ~empty,
            fullRangeCheck |-> ~run /\ ~empty,
            rangeEndSpin |-> ~run /\ ~empty /\ ~fullRange,
            rangeStartSpin |-> ~run /\ ~empty /\ ~fullRange,
            lnbDoubleSpinBox |-> ~run,
            sampleRateSpin |-> ~run],
        !.ui.scanChecked = run]

OnFullRangeChanged(s) ==
  LET dev == SelectedDevice(s)
      s1 == IF HasSelectedDevice(s) /\ s.ui.fullRangeCheck
              THEN RangeEndSetValue(
                     RangeStartSetValue(s, dev.minFreq), dev.maxFreq)
              ELSE s
  IN RefreshUi(s1)

FullRangeSetChecked(s, b) ==
  IF b = s.ui.fullRangeCheck THEN s
  ELSE OnFullRangeChanged([s EXCEPT !.ui.fullRangeCheck = b])

(***************************************************************************)
(* Gain panel                                                              *)
(***************************************************************************)
PreferredRttMs(dev) ==
  IF dev.driver = StrRtlsdr THEN 60
  ELSE IF dev.driver = StrAirspy THEN 16
  ELSE IF dev.driver = StrHackrf THEN 10
  ELSE 0

(* QLayout::takeAt(0): the first item leaves the layout, if there is one. *)
TakeAt0(layout) == IF layout = <<>> THEN <<>> ELSE Tail(layout)

RECURSIVE TakeN(_, _)
TakeN(layout, n) == IF n = 0 THEN layout ELSE TakeN(TakeAt0(layout), n - 1)

ClearGainsKeepingControls(s) ==
  LET len == Len(s.self.gainControls)
  IN IF len = 0
       THEN [s EXCEPT !.ui.gainGridLayout = TakeAt0(@),
                      !.self.noGainLabel = FALSE]
       ELSE [s EXCEPT !.ui.gainGridLayout = TakeAt0(TakeN(@, len))]

ClearGains(s) ==
  LET len == Len(s.self.gainControls)
  IN IF len = 0
       THEN [s EXCEPT !.ui.gainGridLayout = TakeAt0(@),
                      !.self.noGainLabel = FALSE]
       ELSE [s EXCEPT !.ui.gainGridLayout = TakeAt0(TakeN(@, len)),
                      !.self.gainControls = <<>>]

(* One turn of the loop of refreshGains over the device's gains. *)
AddGainControl(s, device, p) ==
  LET val == IF HasGain(s.cfg, device.driver, p.name)
               THEN GetGain(s.cfg, device.driver, p.name)
               ELSE p.def
  IN [s EXCEPT
        !.self.gainControls = Append(@, [name |-> p.name, gain |-> val]),
        !.ui.gainGridLayout = Append(@, "gain")]

RECURSIVE RefreshGainsLoop(_, _, _)
RefreshGainsLoop(s, device, i) ==
  IF i > Len(device.gains) THEN s
  ELSE RefreshGainsLoop(AddGainControl(s, device, device.gains[i]), device, i + 1)

RefreshGains(s, device) ==
  LET Closing(s1) ==
        IF Len(s1.self.gainControls) = 0
          THEN [s1 EXCEPT !.self.noGainLabel = TRUE,
                          !.ui.gainGridLayout = Append(@, "label")]
          ELSE [s1 EXCEPT !.ui.gainGridLayout = Append(@, "spacer")]
  IN Closing(RefreshGainsLoop(ClearGains(s), device, 1))

OnDeviceChanged(s) ==
  IF HasSelectedDevice(s)
    THEN LET dev == SelectedDevice(s)
             rtt == PreferredRttMs(dev)
             Rtt(s1) == IF rtt # 0 THEN [s1 EXCEPT !.ui.rttSpin = rtt] ELSE s1
             FullRange(s2) ==
               IF s2.ui.fullRangeCheck
                 THEN RangeEndSetValue(
                        RangeStartSetValue(s2, dev.minFreq), dev.maxFreq)
                 ELSE s2
         IN FullRange(Rtt(RefreshGains(SetRanges(s, dev), dev)))
    ELSE ClearGains(s)

OnGainChanged(s, name, val) ==
  Emit(IF HasSelectedDevice(s)
         THEN [s EXCEPT !.cfg = SetGain(@, SelectedDevice(s).driver, name, val)]
         ELSE s,
       [sig |-> "gainChanged", name |-> name, val |-> val])

(***************************************************************************)
(* populateDeviceCombo: the combo and the map are rebuilt from the devices *)
(* of the singleton; a combo that receives its first item selects it.      *)
(***************************************************************************)
OfferedDevices == SelectSeq(DeviceList, LAMBDA d : d.maxFreq > 0 /\ d.available)

PopulateDeviceCombo(s) ==
  LET offered == OfferedDevices
      names == [i \in 1 .. Len(offered) |-> offered[i].desc]
      map == [n \in {offered[i].desc : i \in 1 .. Len(offered)} |->
                (CHOOSE d \in {offered[i] : i \in 1 .. Len(offered)} : d.desc = n)]
      s1 == [s EXCEPT !.ui.deviceItems = names,
                      !.ui.deviceIndex = IF Len(offered) = 0 THEN 0 ELSE 1,
                      !.self.deviceMap = map]
      s2 == IF DOMAIN map # {} THEN OnDeviceChanged(s1) ELSE s1
  IN RefreshUi(s2)

(***************************************************************************)
(* Palettes and sweep strategy                                             *)
(***************************************************************************)
PaletteNames == <<"Suscan", "Gqrx">>

StrategyNames == <<"Stochastic", "Progressive">>

PartitioningNames == <<"Continuous", "Discrete">>

IndexOf(seq, x) ==
  IF \E i \in 1 .. Len(seq) : seq[i] = x
    THEN CHOOSE i \in 1 .. Len(seq) :
           seq[i] = x /\ \A j \in 1 .. i - 1 : seq[j] # x
    ELSE 0

SetPaletteGradient(s, name) ==
  LET s1 == [s EXCEPT !.self.paletteGradient = name]
      i == IndexOf(s.self.palettes, name)
  IN IF i = 0 THEN s1
     ELSE [s1 EXCEPT !.ui.paletteCombo = i, !.wf.palette = name]

DeserializePalettes(s) ==
  IF Len(s.self.palettes) = 0
    THEN SetPaletteGradient(
           [s EXCEPT !.self.palettes = PaletteNames, !.ui.paletteCombo = 1],
           s.self.paletteGradient)
    ELSE s

OnPaletteChanged(s) ==
  SetPaletteGradient(s, s.self.palettes[s.ui.paletteCombo])

OnStrategyChanged(s, strategy) ==
  Emit([s EXCEPT !.ui.partitioningEnabled = (strategy # "Progressive")],
       [sig |-> "strategyChanged", strategy |-> strategy])

(***************************************************************************)
(* Scan state                                                              *)
(***************************************************************************)
SetRunning(s, running) ==
  LET s1 == IF running /\ ~s.self.running
              THEN [s EXCEPT !.self.frames = 0, !.ui.framesLabel = 0]
              ELSE IF ~running /\ s.self.running
                THEN SampleRateSpinSetValue(s, s.cfg.sampRate)
                ELSE s
  IN RefreshUi([s1 EXCEPT !.self.running = running])

SetBannedDevice(s, desc) == [s EXCEPT !.self.bannedDevice = desc]

SetMinBwForZoom(s, bw) ==
  SampleRateSpinSetValue([s EXCEPT !.self.minBwForZoom = bw], bw)

ScanText(checked) == IF checked THEN "Stop" ELSE "Start scan"

OnToggleScanIgnoringBan(s) ==
  LET s1 == IF s.ui.scanChecked
              THEN Emit(s, [sig |-> "start"])
              ELSE Emit(s, [sig |-> "stop"])
  IN [s1 EXCEPT !.ui.scanText = ScanText(s1.ui.scanChecked)]

OnToggleScan(s) ==
  LET dev == SelectedDevice(s)
      s1 == IF s.ui.scanChecked
              THEN IF s.self.bannedDevice # "" /\ dev.desc = s.self.bannedDevice
                     THEN [Emit(s, [sig |-> "QMessageBox::critical"])
                             EXCEPT !.ui.scanChecked = FALSE]
                     ELSE Emit(s, [sig |-> "start"])
              ELSE Emit(s, [sig |-> "stop"])
  IN [s1 EXCEPT !.ui.scanText = ScanText(s1.ui.scanChecked)]

(***************************************************************************)
(* saveConfig                                                              *)
(***************************************************************************)
SaveConfigWithoutRange(s) ==
  [s EXCEPT
     !.cfg.device = SelectedDevice(s).desc,
     !.cfg.lnbFreq = s.ui.lnbDoubleSpinBox,
     !.cfg.palette = s.self.paletteGradient,
     !.cfg.strategy = StrategyNames[s.ui.walkStrategyCombo],
     !.cfg.partitioning = PartitioningNames[s.ui.partitioningCombo],
     !.cfg.fullRange = s.ui.fullRangeCheck]

SaveConfig(s) ==
  [s EXCEPT
     !.cfg.device = SelectedDevice(s).desc,
     !.cfg.lnbFreq = s.ui.lnbDoubleSpinBox,
     !.cfg.palette = s.self.paletteGradient,
     !.cfg.rangeMin = s.ui.rangeStartSpin.value,
     !.cfg.rangeMax = s.ui.rangeEndSpin.value,
     !.cfg.strategy = StrategyNames[s.ui.walkStrategyCombo],
     !.cfg.partitioning = PartitioningNames[s.ui.partitioningCombo],
     !.cfg.fullRange = s.ui.fullRangeCheck]

(***************************************************************************)
(* Sweep frames and zoom.  The waterfall answers resetHorizontalZoom by    *)
(* showing its whole sample rate again and signalling newZoomLevel, which  *)
(* runs onNewZoomLevel inside the handler that asked for the reset.        *)
(***************************************************************************)
RelBwValues == {50, 100}

(* static_cast<quint64> of a qint64: a negative x reads as 2^64 + x. *)
ToQuint64(x) == IF x >= 0 THEN <<0, x>> ELSE <<1, x>>

RedrawMeasures(s) ==
  LET f == CDiv(2 * s.wf.filterOffset + s.self.freqStart + s.self.freqEnd, 2)
  IN [s EXCEPT !.self.demodFreq = f,
               !.ui.centerLabel = f,
               !.ui.bwLabel = s.wf.cuts[2] - s.wf.cuts[1],
               !.ui.framesLabel = s.self.frames]

RECURSIVE SetWfRange(_, _, _)
RECURSIVE OnNewZoomLevel(_)
RECURSIVE ResetHorizontalZoom(_)

ResetHorizontalZoom(s) ==
  OnNewZoomLevel(Emit([s EXCEPT !.wf.fftCenter = 0, !.wf.span = s.wf.sampleRate],
                      [sig |-> "newZoomLevel"]))

SetWfRangeMovingCentre(s, freqStart, freqEnd) ==
  LET s0 == Emit(s, [sig |-> "setWfRange", min |-> freqStart, max |-> freqEnd])
      fc == CDiv(freqEnd + freqStart, 2)
      s1 == [s0 EXCEPT !.wf.centerFreq = fc]
  IN IF s0.self.fixedFreqMode
       THEN LET bw == s0.self.minBwForZoom
            IN IF bw # s0.self.currBw
                 THEN [s1 EXCEPT !.wf.sampleRate = bw, !.self.currBw = bw]
                 ELSE s1
       ELSE LET bw == freqEnd - freqStart
            IN IF bw # s1.self.currBw
                 THEN LET s2 ==
                            [s1 EXCEPT
                               !.wf.locked = FALSE,
                               !.wf.sampleRate = bw,
                               !.wf.demodRanges =
                                  <<-CDiv(bw, 2), 0, 0, CDiv(bw, 2), TRUE>>,
                               !.wf.cuts = <<-CDiv(bw, 20), CDiv(bw, 20)>>]
                      IN [ResetHorizontalZoom(s2) EXCEPT !.self.currBw = bw]
                 ELSE s1

SetWfRange(s, freqStart, freqEnd) ==
  LET s0 == Emit(s, [sig |-> "setWfRange", min |-> freqStart, max |-> freqEnd])
  IN IF s0.self.fixedFreqMode
       THEN LET bw == s0.self.minBwForZoom
            IN IF bw # s0.self.currBw
                 THEN [s0 EXCEPT !.wf.sampleRate = bw, !.self.currBw = bw]
                 ELSE s0
       ELSE LET fc == CDiv(freqEnd + freqStart, 2)
                bw == freqEnd - freqStart
                s1 == [s0 EXCEPT !.wf.centerFreq = fc]
            IN IF bw # s1.self.currBw
                 THEN LET s2 ==
                            [s1 EXCEPT
                               !.wf.locked = FALSE,
                               !.wf.sampleRate = bw,
                               !.wf.demodRanges =
                                  <<-CDiv(bw, 2), 0, 0, CDiv(bw, 2), TRUE>>,
                               !.wf.cuts = <<-CDiv(bw, 20), CDiv(bw, 20)>>]
                      IN [ResetHorizontalZoom(s2) EXCEPT !.self.currBw = bw]
                 ELSE s1

OnNewZoomLevel(s) ==
  LET fc0 == Abs(s.wf.centerFreq + s.wf.fftCenter)
      span == s.wf.span
  IN IF s.self.adjustingRange THEN s
     ELSE
       LET s1 == [s EXCEPT !.self.adjustingRange = TRUE]
           min0 == fc0 - CDiv(span, 2)
           max0 == fc0 + CDiv(span, 2)
           adjLeft == min0 < GetMinFreq(s1)
           adjRight == max0 > GetMaxFreq(s1)
           min1 == IF adjLeft THEN GetMinFreq(s1) ELSE min0
           max1 == IF adjRight THEN GetMaxFreq(s1) ELSE max0
           s2 == IF adjLeft /\ adjRight THEN ResetHorizontalZoom(s1) ELSE s1
           fixed == (max1 - min1) * 100
                      <= s2.self.minBwForZoom * GetRelBwPercent(s2)
           s3 == [s2 EXCEPT !.self.fixedFreqMode = fixed]
           fc == s3.wf.centerFreq
           min == IF fixed THEN fc - CDiv(span, 2) ELSE min1
           max == IF fixed THEN fc + CDiv(span, 2) ELSE max1
           Report(s4) ==
             Emit([s4 EXCEPT !.self.adjustingRange = FALSE],
                  [sig |-> "detailChanged", min |-> ToQuint64(min),
                   max |-> ToQuint64(max), fixed |-> s4.self.fixedFreqMode])
       IN Report(SetWfRange(s3, min, max))

FeedSavingOnRangeChange(s, freqStart, freqEnd, data) ==
  LET changed == s.self.freqStart # freqStart \/ s.self.freqEnd # freqEnd
      s1 == IF changed
              THEN LET a == [s EXCEPT !.self.freqStart = freqStart,
                                      !.self.freqEnd = freqEnd,
                                      !.self.adjustingRange = TRUE]
                       b == SetWfRange(a, freqStart, freqEnd)
                       c == [b EXCEPT !.self.adjustingRange = FALSE]
                   IN [c EXCEPT !.saved = [start |-> freqStart,
                                           end |-> freqEnd, data |-> data]]
              ELSE s
      s2 == [s1 EXCEPT !.ui.exportEnabled = TRUE,
                       !.wf.fftData = data,
                       !.self.frames = @ + 1]
  IN RedrawMeasures(s2)

FeedNotGuardingZoom(s, freqStart, freqEnd, data) ==
  LET changed == s.self.freqStart # freqStart \/ s.self.freqEnd # freqEnd
      s1 == IF changed
              THEN LET a == [s EXCEPT !.self.freqStart = freqStart,
                                      !.self.freqEnd = freqEnd]
                       b == SetWfRange(a, freqStart, freqEnd)
                   IN [b EXCEPT !.self.adjustingRange = FALSE]
              ELSE s
      s2 == [s1 EXCEPT !.saved = [start |-> freqStart, end |-> freqEnd,
                                  data |-> data],
                       !.ui.exportEnabled = TRUE,
                       !.wf.fftData = data,
                       !.self.frames = @ + 1]
  IN RedrawMeasures(s2)

(* feed: the frequencies of a sweep frame are below 2^63, where the casts  *)
(* from quint64 to qint64 keep the value.                                  *)
Feed(s, freqStart, freqEnd, data) ==
  LET changed == s.self.freqStart # freqStart \/ s.self.freqEnd # freqEnd
      s1 == IF changed
              THEN LET a == [s EXCEPT !.self.freqStart = freqStart,
                                      !.self.freqEnd = freqEnd,
                                      !.self.adjustingRange = TRUE]
                       b == SetWfRange(a, freqStart, freqEnd)
                   IN [b EXCEPT !.self.adjustingRange = FALSE]
              ELSE s
      s2 == [s1 EXCEPT !.saved = [start |-> freqStart, end |-> freqEnd,
                                  data |-> data],
                       !.ui.exportEnabled = TRUE,
                       !.wf.fftData = data,
                       !.self.frames = @ + 1]
  IN RedrawMeasures(s2)

(* onNewCenterFreq: the user panned the waterfall to freq.  The cast of a   *)
(* negative midpoint from double to quint64 is undefined; negCentre is the *)
(* centre the build leaves the waterfall with in that case.                *)
OnNewCenterFreq(s, freq, negCentre) ==
  LET span == s.self.currBw
      min0 == freq - CDiv(span, 2)
      max0 == freq + CDiv(span, 2)
      leftBorder == min0 <= GetMinFreq(s)
      rightBorder == max0 >= GetMaxFreq(s)
      min1 == IF leftBorder THEN GetMinFreq(s) ELSE min0
      max1 == IF rightBorder THEN GetMaxFreq(s) ELSE max0
      smallRange == max1 - min1 >= 0 /\ max1 - min1 <= s.self.minBwForZoom
      max == IF smallRange /\ leftBorder /\ ~rightBorder
               THEN min1 + span ELSE max1
      min == IF smallRange /\ rightBorder /\ ~leftBorder
               THEN max1 - span ELSE min1
      Centre(a) ==
        IF rightBorder \/ leftBorder
          THEN Emit([a EXCEPT !.wf.centerFreq =
                       IF max + min >= 0 THEN CDiv(max + min, 2)
                       ELSE negCentre],
                    [sig |-> "setCenterFreq"])
          ELSE a
  IN Emit(Centre(s),
          [sig |-> "detailChanged", min |-> ToQuint64(min),
           max |-> ToQuint64(max), fixed |-> s.self.fixedFreqMode])

(***************************************************************************)
(* applyConfig, and the state of the dialog once it is built and a loaded  *)
(* configuration has been applied to it.                                   *)
(***************************************************************************)
ApplyConfig(s) ==
  LET Lnb(s1) == LnbSetValue(s1, s1.cfg.lnbFreq)
      RangeStart(s2) == RangeStartSetValue(s2, s2.cfg.rangeMin)
      RangeEnd(s3) == RangeEndSetValue(s3, s3.cfg.rangeMax)
      FullRange(s4) == FullRangeSetChecked(s4, s4.cfg.fullRange)
      SampleRate(s5) == SampleRateSpinSetValue(s5, s5.cfg.sampRate)
      PanRange(s6) ==
        [s6 EXCEPT
           !.wf.pandapterRange = <<s6.cfg.panRangeMin, s6.cfg.panRangeMax>>,
           !.wf.waterfallRange = <<s6.cfg.panRangeMin, s6.cfg.panRangeMax>>]
  IN OnDeviceChanged(PanRange(SampleRate(FullRange(RangeEnd(RangeStart(Lnb(
       SetPaletteGradient(DeserializePalettes(s), s.cfg.palette))))))))

Constructed(cfg) ==
  [ui |->
     [deviceItems |-> <<>>, deviceIndex |-> 0,
      lnbDoubleSpinBox |-> 0, fullRangeCheck |-> TRUE,
      rangeStartSpin |-> [value |-> 0, min |-> 0, max |-> FreqCap],
      rangeEndSpin |-> [value |-> 0, min |-> 0, max |-> FreqCap],
      sampleRateSpin |-> 0, rttSpin |-> 0, relBwSlider |-> 100,
      scanChecked |-> FALSE, scanText |-> "Start scan",
      exportEnabled |-> FALSE,
      enabled |-> [deviceCombo |-> TRUE, fullRangeCheck |-> TRUE,
                   rangeEndSpin |-> TRUE, rangeStartSpin |-> TRUE,
                   lnbDoubleSpinBox |-> TRUE, sampleRateSpin |-> TRUE],
      partitioningEnabled |-> TRUE,
      gainGridLayout |-> <<>>,
      framesLabel |-> 0, centerLabel |-> 0, bwLabel |-> 0,
      paletteCombo |-> 0, walkStrategyCombo |-> 1, partitioningCombo |-> 1],
   self |->
     [deviceMap |-> EmptyMap, running |-> FALSE, frames |-> 0,
      bannedDevice |-> "", fixedFreqMode |-> FALSE, adjustingRange |-> FALSE,
      minBwForZoom |-> 0, currBw |-> 0, freqStart |-> 0, freqEnd |-> 0,
      gainControls |-> <<>>, noGainLabel |-> FALSE,
      paletteGradient |-> "Suscan", palettes |-> <<>>, demodFreq |-> 0],
   cfg |-> cfg,
   wf |->
     [centerFreq |-> 0, sampleRate |-> 0, span |-> 0, fftCenter |-> 0,
      locked |-> FALSE, demodRanges |-> <<0, 0, 0, 0, TRUE>>,
      cuts |-> <<0, 0>>, fftData |-> <<>>, filterOffset |-> 0,
      palette |-> "", pandapterRange |-> <<0, 0>>,
      waterfallRange |-> <<0, 0>>],
   saved |-> [start |-> 0, end |-> 0, data |-> <<>>],
   out |-> <<>>]

LoadedConfigs == {[DefaultConfig EXCEPT !.fullRange = f] : f \in BOOLEAN}

DlgInitFrom(configs) ==
  /\ \E cfg \in configs :
       LET Is(s) ==
             /\ ui = s.ui
             /\ self = s.self
             /\ dialogConfig = s.cfg
             /\ waterfall = s.wf
             /\ saved = s.saved
       IN Is(ApplyConfig(Constructed(cfg)))
  /\ out = <<>>
  /\ op = [name |-> "PanoramicDialog"]
  /\ runPc = "idle"
  /\ runStops = 0

DlgInit == DlgInitFrom(LoadedConfigs)

DlgIdle == DlgInitFrom({DefaultConfig})

(***************************************************************************)
(* Steps.  run() populates the combo and the palettes, shows the modal     *)
(* dialog, and once exec() has returned saves the configuration and emits  *)
(* stop.  Widgets answer the user while the dialog is shown and enabled;   *)
(* the application calls the public setters and feed from its event loop.  *)
(***************************************************************************)
Shown == runPc = "exec"

EventLoop == runPc \in {"idle", "exec"}

Did(name) == op' = [name |-> name]

RunBegin ==
  /\ runPc = "idle"
  /\ Becomes(DeserializePalettes(PopulateDeviceCombo(Cur)))
  /\ runPc' = "exec"
  /\ runStops' = 0
  /\ Did("run")

RunExecReturns ==
  /\ runPc = "exec"
  /\ runPc' = "saveConfig"
  /\ out' = <<>>
  /\ Did("exec")
  /\ UNCHANGED <<ui, self, dialogConfig, waterfall, saved, runStops>>

RunSaveConfig ==
  /\ runPc = "saveConfig"
  /\ Becomes(SaveConfig(Cur))
  /\ runPc' = "emit"
  /\ Did("saveConfig")
  /\ UNCHANGED runStops

RunEmitStop ==
  /\ runPc = "emit"
  /\ Becomes(Emit(Cur, [sig |-> "stop"]))
  /\ runPc' = "idle"
  /\ runStops' = runStops + 1
  /\ Did("stop")

DeviceActivated ==
  /\ Shown /\ ui.enabled.deviceCombo
  /\ \E i \in 1 .. Len(ui.deviceItems) :
       /\ Becomes(OnDeviceChanged([Cur EXCEPT !.ui.deviceIndex = i]))
       /\ op' = [name |-> "onDeviceChanged", index |-> i]
  /\ UNCHANGED <<runPc, runStops>>

LnbEdited ==
  /\ Shown /\ ui.enabled.lnbDoubleSpinBox
  /\ \E v \in LnbValues \ {ui.lnbDoubleSpinBox} :
       /\ Becomes(LnbSetValue(Cur, v))
       /\ op' = [name |-> "onLnbOffsetChanged", value |-> v]
  /\ UNCHANGED <<runPc, runStops>>

(* LNB offsets beyond the frequency range of a device, on either side *)
LnbFarValues == {-1, MaxFreq - 2, MaxFreq + 1}

LnbEditedFar ==
  /\ Shown /\ ui.enabled.lnbDoubleSpinBox
  /\ \E v \in LnbFarValues \ {ui.lnbDoubleSpinBox} :
       /\ Becomes(LnbSetValue(Cur, v))
       /\ op' = [name |-> "onLnbOffsetChanged", value |-> v]
  /\ UNCHANGED <<runPc, runStops>>

FullRangeClicked ==
  /\ Shown /\ ui.enabled.fullRangeCheck
  /\ Becomes(FullRangeSetChecked(Cur, ~ui.fullRangeCheck))
  /\ Did("onFullRangeChanged")
  /\ UNCHANGED <<runPc, runStops>>

RangeStartEdited ==
  /\ Shown /\ ui.enabled.rangeStartSpin
  /\ \E v \in 0 .. MaxFreq :
       /\ v # ui.rangeStartSpin.value
       /\ ui.rangeStartSpin.min <= v /\ v <= ui.rangeStartSpin.max
       /\ Becomes(RangeStartSetValue(Cur, v))
       /\ op' = [name |-> "onFreqRangeChanged", value |-> v]
  /\ UNCHANGED <<runPc, runStops>>

RangeEndEdited ==
  /\ Shown /\ ui.enabled.rangeEndSpin
  /\ \E v \in 0 .. MaxFreq :
       /\ v # ui.rangeEndSpin.value
       /\ ui.rangeEndSpin.min <= v /\ v <= ui.rangeEndSpin.max
       /\ Becomes(RangeEndSetValue(Cur, v))
       /\ op' = [name |-> "onFreqRangeChanged", value |-> v]
  /\ UNCHANGED <<runPc, runStops>>

SampleRateEdited ==
  /\ Shown /\ ui.enabled.sampleRateSpin
  /\ \E v \in (0 .. MaxRate) \ {ui.sampleRateSpin} :
       /\ Becomes(SampleRateSpinSetValue(Cur, v))
       /\ op' = [name |-> "onSampleRateSpinChanged", value |-> v]
  /\ UNCHANGED <<runPc, runStops>>

ScanClicked ==
  /\ Shown
  /\ Becomes(OnToggleScan([Cur EXCEPT !.ui.scanChecked = ~ui.scanChecked]))
  /\ op' = [name |-> "onToggleScan", checked |-> ~ui.scanChecked]
  /\ UNCHANGED <<runPc, runStops>>

GainEdited ==
  /\ Shown
  /\ \E i \in 1 .. Len(self.gainControls), val \in GainValues :
       /\ val # self.gainControls[i].gain
       /\ Becomes(OnGainChanged(
                    [Cur EXCEPT !.self.gainControls[i].gain = val],
                    self.gainControls[i].name, val))
       /\ op' = [name |-> "onGainChanged", gain |-> self.gainControls[i].name,
                 value |-> val]
  /\ UNCHANGED <<runPc, runStops>>

PaletteActivated ==
  /\ Shown
  /\ \E i \in 1 .. Len(self.palettes) :
       /\ Becomes(OnPaletteChanged([Cur EXCEPT !.ui.paletteCombo = i]))
       /\ op' = [name |-> "onPaletteChanged", index |-> i]
  /\ UNCHANGED <<runPc, runStops>>

StrategySelected ==
  /\ Shown
  /\ \E i \in (1 .. Len(StrategyNames)) \ {ui.walkStrategyCombo} :
       /\ Becomes(OnStrategyChanged([Cur EXCEPT !.ui.walkStrategyCombo = i],
                                    StrategyNames[i]))
       /\ op' = [name |-> "onStrategyChanged", index |-> i]
  /\ UNCHANGED <<runPc, runStops>>

PartitioningSelected ==
  /\ Shown /\ ui.partitioningEnabled
  /\ \E i \in (1 .. Len(PartitioningNames)) \ {ui.partitioningCombo} :
       /\ Becomes(Emit([Cur EXCEPT !.ui.partitioningCombo = i],
                       [sig |-> "partitioningChanged",
                        partitioning |-> PartitioningNames[i]]))
       /\ op' = [name |-> "partitioningChanged", index |-> i]
  /\ UNCHANGED <<runPc, runStops>>

RelBwMoved ==
  /\ Shown
  /\ \E v \in RelBwValues \ {ui.relBwSlider} :
       /\ Becomes(Emit([Cur EXCEPT !.ui.relBwSlider = v],
                       [sig |-> "relBandwidthChanged"]))
       /\ op' = [name |-> "relBandwidthChanged", value |-> v]
  /\ UNCHANGED <<runPc, runStops>>

DoSetRunning ==
  /\ EventLoop
  /\ \E b \in BOOLEAN :
       /\ Becomes(SetRunning(Cur, b))
       /\ op' = [name |-> "setRunning", running |-> b, was |-> self.running]
  /\ UNCHANGED <<runPc, runStops>>

DoSetBannedDevice ==
  /\ EventLoop
  /\ \E d \in {"", "A", "B"} \ {self.bannedDevice} :
       /\ Becomes(SetBannedDevice(Cur, d))
       /\ op' = [name |-> "setBannedDevice", desc |-> d]
  /\ UNCHANGED <<runPc, runStops>>

DoSetMinBwForZoom ==
  /\ EventLoop
  /\ \E bw \in 0 .. MaxRate :
       /\ Becomes(SetMinBwForZoom(Cur, bw))
       /\ op' = [name |-> "setMinBwForZoom", bw |-> bw]
  /\ UNCHANGED <<runPc, runStops>>

DoFeed ==
  /\ EventLoop
  /\ self.frames < MaxFrames
  /\ \E fs \in {0, 1}, fe \in {MaxFreq - 1, MaxFreq}, data \in DataValues :
       /\ fs < fe
       /\ Becomes(Feed(Cur, fs, fe, data))
       /\ op' = [name |-> "feed", freqStart |-> fs, freqEnd |-> fe,
                 data |-> data]
  /\ UNCHANGED <<runPc, runStops>>

(* The user zooms the waterfall: it shows span Hz of its sample rate,      *)
(* centred fftCenter Hz off its centre frequency, and signals newZoomLevel.*)
ZoomChanged ==
  /\ EventLoop
  /\ \E span \in 1 .. MaxFreq, off \in -MaxFreq .. MaxFreq :
       /\ span <= waterfall.sampleRate
       /\ 2 * Abs(off) + span <= waterfall.sampleRate
       /\ <<span, off>> # <<waterfall.span, waterfall.fftCenter>>
       /\ Becomes(OnNewZoomLevel(
                    [Cur EXCEPT !.wf.span = span, !.wf.fftCenter = off]))
       /\ op' = [name |-> "onNewZoomLevel", span |-> span, fftCenter |-> off,
                 minFreq |-> ui.rangeStartSpin.value,
                 maxFreq |-> ui.rangeEndSpin.value]
  /\ UNCHANGED <<runPc, runStops>>

(* The user pans the waterfall: it signals newCenterFreq. *)
CenterFreqChanged ==
  /\ EventLoop
  /\ \E freq \in 0 .. MaxFreq, negCentre \in {0, -1} :
       /\ Becomes(OnNewCenterFreq(Cur, freq, negCentre))
       /\ op' = [name |-> "onNewCenterFreq", freq |-> freq]
  /\ UNCHANGED <<runPc, runStops>>

(***************************************************************************)
(* onExport: the save dialog is shown again until an export succeeds or    *)
(* the user cancels it.  exportToFile writes the saved spectrum to a path  *)
(* it can open.                                                            *)
(***************************************************************************)
VARIABLES exportPc, exportWarnings, exportedFile

exportVars == <<exportPc, exportWarnings, exportedFile>>

Paths == {"a.m", "b.m", "/ro/c.m"}

CanOpen(path) == path # "/ro/c.m"

ExportToFile(sv, path) ==
  IF ~CanOpen(path)
    THEN [ok |-> FALSE, file |-> exportedFile]
    ELSE [ok |-> TRUE,
          file |-> [path |-> path, freqMin |-> sv.start, freqMax |-> sv.end,
                    PSD |-> sv.data]]

ExportInit ==
  /\ exportPc = "idle"
  /\ exportWarnings = 0
  /\ exportedFile = [path |-> "", freqMin |-> 0, freqMax |-> 0, PSD |-> <<>>]

(* What onExport does with the answer of one file dialog: TRUE in done     *)
(* ends the loop.                                                          *)
ExportAttemptGivingUp(accepted, path) ==
  IF accepted
    THEN LET r == ExportToFile(saved, path)
         IN [done |-> TRUE, warned |-> ~r.ok, file |-> r.file]
    ELSE [done |-> TRUE, warned |-> FALSE, file |-> exportedFile]

ExportAttempt(accepted, path) ==
  IF accepted
    THEN LET r == ExportToFile(saved, path)
         IN [done |-> r.ok, warned |-> ~r.ok, file |-> r.file]
    ELSE [done |-> TRUE, warned |-> FALSE, file |-> exportedFile]

OnExportBegin ==
  /\ Shown /\ ui.exportEnabled
  /\ exportPc = "idle"
  /\ exportPc' = "dialog"
  /\ exportWarnings' = 0
  /\ out' = <<>>
  /\ Did("onExport")
  /\ UNCHANGED <<ui, self, dialogConfig, waterfall, saved, runPc, runStops,
                 exportedFile>>

ExportStep(accepted, path) ==
  LET r == ExportAttempt(accepted, path)
  IN /\ exportPc' = IF r.done THEN "idle" ELSE "dialog"
     /\ exportWarnings' = IF r.warned THEN exportWarnings + 1 ELSE exportWarnings
     /\ exportedFile' = r.file
     /\ out' = IF r.warned THEN <<[sig |-> "QMessageBox::warning"]>> ELSE <<>>
     /\ op' = [name |-> "QFileDialog::exec", accepted |-> accepted,
               path |-> path]
     /\ UNCHANGED <<ui, self, dialogConfig, waterfall, saved, runPc, runStops>>

ExportDialogAcceptedWritable ==
  /\ exportPc = "dialog"
  /\ \E path \in {q \in Paths : CanOpen(q)} : ExportStep(TRUE, path)

ExportDialogAcceptedUnwritable ==
  /\ exportPc = "dialog"
  /\ exportWarnings < MaxRetries
  /\ \E path \in {q \in Paths : ~CanOpen(q)} : ExportStep(TRUE, path)

ExportDialogCancelled ==
  /\ exportPc = "dialog"
  /\ ExportStep(FALSE, "")

(***************************************************************************)
(* MainSpectrum::deserializeFATs over the band plans of the singleton.     *)
(* A band object either deserializes or raises Suscan::Exception; a table  *)
(* whose "bands" field is no set fails SU_ATTEMPT, which raises out of the *)
(* function.                                                               *)
(***************************************************************************)
VARIABLES fatObjects, FATs, fatPc, fatNdx, fatI, fatOut

fatVars == <<fatObjects, FATs, fatPc, fatNdx, fatI, fatOut>>

MaxTables == 2
MaxBands == 2

BandObject(k, i, raises) ==
  [raises |-> raises, min |-> 10 * k + i, max |-> 10 * k + i + 1]

BandLists(k) ==
  UNION {[1 .. n -> BOOLEAN] : n \in 0 .. MaxBands}

TableObjects(k) ==
  {[name |-> k, isSet |-> TRUE,
    bands |-> [i \in DOMAIN r |-> BandObject(k, i, r[i])]] : r \in BandLists(k)}
  \cup {[name |-> k, isSet |-> FALSE, bands |-> <<>>]}

FatObjectLists ==
  UNION {{t \in [1 .. n -> UNION {TableObjects(k) : k \in 1 .. MaxTables}] :
            \A k \in 1 .. n : t[k].name = k} : n \in 0 .. MaxTables}

DeserializeFrequencyBand(obj) == [min |-> obj.min, max |-> obj.max]

FatStart ==
  /\ fatPc = "start"
  /\ fatNdx' = 0
  /\ fatPc' = "table"
  /\ UNCHANGED <<fatObjects, FATs, fatI, fatOut>>

(* One turn of the outer loop up to the inner loop. *)
FatTable ==
  /\ fatPc = "table"
  /\ IF fatNdx >= Len(fatObjects)
       THEN /\ fatPc' = "done"
            /\ UNCHANGED <<FATs, fatI>>
       ELSE LET p == fatObjects[fatNdx + 1]
            IN /\ FATs' = [k \in 1 .. fatNdx + 1 |->
                             IF k = fatNdx + 1
                               THEN [name |-> p.name, bands |-> <<>>]
                               ELSE FATs[k]]
               /\ IF p.isSet
                    THEN fatPc' = "bands" /\ fatI' = 0
                    ELSE fatPc' = "raised" /\ UNCHANGED fatI
  /\ UNCHANGED <<fatObjects, fatNdx, fatOut>>

PushBandAbortingTable(fats, ndx, obj) ==
  IF obj.raises
    THEN [fats EXCEPT ![ndx + 1].bands = <<>>]
    ELSE [fats EXCEPT ![ndx + 1].bands = Append(@, DeserializeFrequencyBand(obj))]

(* try { pushBand(deserializeFrequencyBand(bands[i])) } catch (...) { } *)
PushBand(fats, ndx, obj) ==
  IF obj.raises
    THEN fats
    ELSE [fats EXCEPT ![ndx + 1].bands = Append(@, DeserializeFrequencyBand(obj))]

FatBand ==
  /\ fatPc = "bands"
  /\ LET bands == fatObjects[fatNdx + 1].bands
     IN IF fatI < Len(bands)
          THEN /\ FATs' = PushBand(FATs, fatNdx, bands[fatI + 1])
               /\ fatI' = fatI + 1
               /\ UNCHANGED <<fatPc, fatNdx, fatOut>>
          ELSE /\ fatOut' = Append(fatOut, [sig |-> "newBandPlan",
                                            name |-> FATs[fatNdx + 1].name])
               /\ fatNdx' = fatNdx + 1
               /\ fatPc' = "table"
               /\ UNCHANGED <<FATs, fatI>>
  /\ UNCHANGED fatObjects

FatInit ==
  /\ fatObjects \in FatObjectLists
  /\ FATs = <<>>
  /\ fatPc = "start"
  /\ fatNdx = 0
  /\ fatI = 0
  /\ fatOut = <<>>

FatIdle ==
  /\ fatObjects = <<>>
  /\ FATs = <<>>
  /\ fatPc = "start"
  /\ fatNdx = 0
  /\ fatI = 0
  /\ fatOut = <<>>

(***************************************************************************)
(* PanoramicDialogConfig::serialize / deserialize.  A Suscan::Object of    *)
(* type OBJECT is a list of named fields: set replaces the field of that   *)
(* name or appends one, get returns the field's value or the default it is *)
(* given.                                                                  *)
(***************************************************************************)
Str_fullRange ==
  <<"f", "u", "l", "l", "R", "a", "n", "g", "e">>

Str_rangeMin ==
  <<"r", "a", "n", "g", "e", "M", "i", "n">>

Str_rangeMax ==
  <<"r", "a", "n", "g", "e", "M", "a", "x">>

Str_panRangeMin ==
  <<"p", "a", "n", "R", "a", "n", "g", "e", "M", "i", "n">>

Str_panRangeMax ==
  <<"p", "a", "n", "R", "a", "n", "g", "e", "M", "a", "x">>

Str_lnbFreq ==
  <<"l", "n", "b", "F", "r", "e", "q">>

Str_device ==
  <<"d", "e", "v", "i", "c", "e">>

Str_sampRate ==
  <<"s", "a", "m", "p", "R", "a", "t", "e">>

Str_strategy ==
  <<"s", "t", "r", "a", "t", "e", "g", "y">>

Str_partitioning ==
  <<"p", "a", "r", "t", "i", "t", "i", "o", "n", "i", "n", "g">>

Str_palette ==
  <<"p", "a", "l", "e", "t", "t", "e">>

EmptyObject == [class |-> "", fields |-> <<>>]

ObjHas(obj, name) == \E i \in 1 .. Len(obj.fields) : obj.fields[i].name = name

ObjSet(obj, name, val) ==
  IF ObjHas(obj, name)
    THEN [obj EXCEPT !.fields =
            [i \in 1 .. Len(@) |->
               IF @[i].name = name THEN [name |-> name, value |-> val] ELSE @[i]]]
    ELSE [obj EXCEPT !.fields = Append(@, [name |-> name, value |-> val])]

ObjGet(obj, name, default) ==
  IF ObjHas(obj, name)
    THEN obj.fields[CHOOSE i \in 1 .. Len(obj.fields) :
                      obj.fields[i].name = name].value
    ELSE default

(* for (auto p : this->gains) obj.set(p.first, p.second) *)
RECURSIVE StoreGains(_, _, _)
StoreGains(obj, gains, keys) ==
  IF keys = {} THEN obj
  ELSE LET k == CHOOSE x \in keys : TRUE
       IN StoreGains(ObjSet(obj, k, gains[k]), gains, keys \ {k})

SerializeWithoutPalette(c) ==
  LET o0 == [EmptyObject EXCEPT !.class = "PanoramicDialogConfig"]
      o1 == ObjSet(o0, Str_fullRange, c.fullRange)
      o2 == ObjSet(o1, Str_rangeMin, c.rangeMin)
      o3 == ObjSet(o2, Str_rangeMax, c.rangeMax)
      o4 == ObjSet(o3, Str_panRangeMin, c.panRangeMin)
      o5 == ObjSet(o4, Str_panRangeMax, c.panRangeMax)
      o6 == ObjSet(o5, Str_lnbFreq, c.lnbFreq)
      o7 == ObjSet(o6, Str_sampRate, c.sampRate)
      o8 == ObjSet(o7, Str_device, c.device)
      o9 == ObjSet(o8, Str_strategy, c.strategy)
      o10 == ObjSet(o9, Str_partitioning, c.partitioning)
  IN StoreGains(o10, c.gains, DOMAIN c.gains)

Serialize(c) ==
  LET o0 == [EmptyObject EXCEPT !.class = "PanoramicDialogConfig"]
      o1 == ObjSet(o0, Str_fullRange, c.fullRange)
      o2 == ObjSet(o1, Str_rangeMin, c.rangeMin)
      o3 == ObjSet(o2, Str_rangeMax, c.rangeMax)
      o4 == ObjSet(o3, Str_panRangeMin, c.panRangeMin)
      o5 == ObjSet(o4, Str_panRangeMax, c.panRangeMax)
      o6 == ObjSet(o5, Str_lnbFreq, c.lnbFreq)
      o7 == ObjSet(o6, Str_sampRate, c.sampRate)
      o8 == ObjSet(o7, Str_device, c.device)
      o9 == ObjSet(o8, Str_strategy, c.strategy)
      o10 == ObjSet(o9, Str_partitioning, c.partitioning)
      o11 == ObjSet(o10, Str_palette, c.palette)
  IN StoreGains(o11, c.gains, DOMAIN c.gains)

(* The loop of deserialize over the fields whose name starts with "gain." *)
RECURSIVE LoadGains(_, _, _)
LoadGains(gains, conf, i) ==
  IF i > Len(conf.fields) THEN gains
  ELSE LET name == conf.fields[i].name
       IN LoadGains(
            IF Substr(name, 0, 5) = StrGainDot
              THEN MapPut(gains, name, ObjGet(conf, name, 0))
              ELSE gains,
            conf, i + 1)

Deserialize(c, conf) ==
  [fullRange |-> ObjGet(conf, Str_fullRange, c.fullRange),
     rangeMin |-> ObjGet(conf, Str_rangeMin, c.rangeMin),
     rangeMax |-> ObjGet(conf, Str_rangeMax, c.rangeMax),
     panRangeMin |-> ObjGet(conf, Str_panRangeMin, c.panRangeMin),
     panRangeMax |-> ObjGet(conf, Str_panRangeMax, c.panRangeMax),
     lnbFreq |-> ObjGet(conf, Str_lnbFreq, c.lnbFreq),
     device |-> ObjGet(conf, Str_device, c.device),
     sampRate |-> ObjGet(conf, Str_sampRate, c.sampRate),
     strategy |-> ObjGet(conf, Str_strategy, c.strategy),
     partitioning |-> ObjGet(conf, Str_partitioning, c.partitioning),
     palette |-> ObjGet(conf, Str_palette, c.palette),
     gains |-> LoadGains(c.gains, conf, 1)]

VARIABLES rtConfig, rtObject, rtLoaded, rtPc

rtVars == <<rtConfig, rtObject, rtLoaded, rtPc>>

RtConfigs ==
  {[fullRange |-> f, rangeMin |-> a, rangeMax |-> MaxFreq,
    panRangeMin |-> -70, panRangeMax |-> pm, lnbFreq |-> l,
    device |-> d, sampRate |-> r, strategy |-> st,
    partitioning |-> "Discrete", palette |-> p, gains |-> EmptyMap] :
     f \in BOOLEAN, a \in {0, 1}, pm \in {0, -10}, l \in LnbValues,
     d \in {"", "A"}, r \in {1, MaxRate}, st \in {"", "Progressive"},
     p \in {"Suscan", "Gqrx"}}

RtIdle ==
  /\ rtConfig = DefaultConfig
  /\ rtObject = EmptyObject
  /\ rtLoaded = DefaultConfig
  /\ rtPc = "config"

RtInit ==
  /\ rtConfig \in RtConfigs
  /\ rtObject = EmptyObject
  /\ rtLoaded = DefaultConfig
  /\ rtPc = "config"

RtSetGain ==
  /\ rtPc = "config"
  /\ \E dev \in {StrRtlsdr, StrAirspy}, val \in {0, MaxGain} :
       /\ ~HasGain(rtConfig, dev, StrLNA)
       /\ rtConfig' = SetGain(rtConfig, dev, StrLNA, val)
  /\ UNCHANGED <<rtObject, rtLoaded, rtPc>>

RtSerialize ==
  /\ rtPc = "config"
  /\ rtObject' = Serialize(rtConfig)
  /\ rtPc' = "serialized"
  /\ UNCHANGED <<rtConfig, rtLoaded>>

RtDeserialize ==
  /\ rtPc = "serialized"
  /\ rtLoaded' = Deserialize(DefaultConfig, rtObject)
  /\ rtPc' = "deserialized"
  /\ UNCHANGED <<rtConfig, rtObject>>

(***************************************************************************)
(* MainSpectrum.  The three frequency LCDs (centre, LO, LNB) are kept as   *)
(* bounded values: an LCD keeps minimum <= value <= maximum and signals    *)
(* valueChanged, delivered at once to the connected slot, whenever its     *)
(* value changes.  mainSpectrum holds the LCDs, the private members and    *)
(* what was last set on the contained waterfall; msOut lists the setter    *)
(* calls and signals of the last handler in their order.                   *)
(***************************************************************************)
VARIABLES mainSpectrum, msOut, msOp

msVars == <<mainSpectrum, msOut, msOp>>

MsCur ==
  [fcLcd |-> mainSpectrum.fcLcd, loLcd |-> mainSpectrum.loLcd,
   lnbLcd |-> mainSpectrum.lnbLcd, minFreq |-> mainSpectrum.minFreq,
   maxFreq |-> mainSpectrum.maxFreq, cachedRate |-> mainSpectrum.cachedRate,
   zoom |-> mainSpectrum.zoom, bandwidth |-> mainSpectrum.bandwidth,
   filterSkewness |-> mainSpectrum.filterSkewness, wf |-> mainSpectrum.wf,
   out |-> <<>>]

MsBecomes(m) ==
  /\ mainSpectrum' = [m EXCEPT !.out = <<>>]
  /\ msOut' = m.out

MsEmit(m, e) == [m EXCEPT !.out = Append(@, e)]

GetCenterFreq(m) == m.fcLcd.value

GetLoFreq(m) == m.loLcd.value - GetCenterFreq(m)

GetLnbFreq(m) == m.lnbLcd.value

GetBandwidth(m) == m.bandwidth

GetFrequencyUnits(freq) ==
  IF Abs(freq) < 1000 THEN 1
  ELSE IF Abs(freq) < 1000000 THEN 1000
  ELSE IF Abs(freq) < 1000000000 THEN 1000000
  ELSE 1000000000

RECURSIVE LcdSetValue(_, _, _)
RECURSIVE UpdateLimits(_)
RECURSIVE SetCenterFreq(_, _)
RECURSIVE SetLnbFreq(_, _)
RECURSIVE OnFrequencyChanged(_)
RECURSIVE OnLnbFrequencyChanged(_)

OnLoChanged(m) ==
  MsEmit([m EXCEPT !.wf.filterOffset = GetLoFreq(m)],
         [sig |-> "loChanged", lo |-> GetLoFreq(m)])

LcdValueChanged(m, lcd) ==
  IF lcd = "fcLcd" THEN OnFrequencyChanged(m)
  ELSE IF lcd = "lnbLcd" THEN OnLnbFrequencyChanged(m)
  ELSE OnLoChanged(m)

LcdSetValue(m, lcd, v) ==
  LET nv == Clamp(v, m[lcd].min, m[lcd].max)
  IN IF nv = m[lcd].value THEN m
     ELSE LcdValueChanged([m EXCEPT ![lcd].value = nv], lcd)

LcdSetMin(m, lcd, lo) ==
  LcdSetValue([m EXCEPT ![lcd].min = lo, ![lcd].max = Max2(lo, m[lcd].max)],
              lcd, m[lcd].value)

LcdSetMax(m, lcd, hi) ==
  LcdSetValue([m EXCEPT ![lcd].min = Min2(hi, m[lcd].min), ![lcd].max = hi],
              lcd, m[lcd].value)

UpdateLimits(m) ==
  LET FcLimits(a) ==
        LcdSetMax(LcdSetMin(a, "fcLcd", a.minFreq - GetLnbFreq(a)),
                  "fcLcd", a.maxFreq - GetLnbFreq(a))
      LoLimits(a) ==
        LcdSetMax(LcdSetMin(a, "loLcd", a.fcLcd.value - a.cachedRate \div 2),
                  "loLcd", a.fcLcd.value + a.cachedRate \div 2)
  IN MsEmit(LoLimits(FcLimits(m)), [sig |-> "updateLimits"])

SetFrequencyLimits(m, min, max) ==
  UpdateLimits([m EXCEPT !.minFreq = min, !.maxFreq = max])

SetLoFreq(m, loFreq) ==
  IF loFreq # GetLoFreq(m)
    THEN LET Offset(a) == [a EXCEPT !.wf.filterOffset = loFreq]
         IN MsEmit(Offset(LcdSetValue(m, "loLcd", loFreq + GetCenterFreq(m))),
                   [sig |-> "loChanged", lo |-> loFreq])
    ELSE m

SetCenterFreqDroppingLo(m, freq) ==
  LET Waterfall(a) ==
        MsEmit(MsEmit([a EXCEPT !.wf.centerFreq = ToQuint64(freq),
                                !.wf.freqUnits = GetFrequencyUnits(freq)],
                      [sig |-> "setCenterFreq", freq |-> ToQuint64(freq)]),
               [sig |-> "setFreqUnits", units |-> GetFrequencyUnits(freq)])
  IN UpdateLimits(Waterfall(LcdSetValue(m, "fcLcd", freq)))

SetCenterFreq(m, freq) ==
  LET Waterfall(a) ==
        MsEmit(MsEmit([a EXCEPT !.wf.centerFreq = ToQuint64(freq),
                                !.wf.freqUnits = GetFrequencyUnits(freq)],
                      [sig |-> "setCenterFreq", freq |-> ToQuint64(freq)]),
               [sig |-> "setFreqUnits", units |-> GetFrequencyUnits(freq)])
  IN SetLoFreq(UpdateLimits(Waterfall(LcdSetValue(m, "fcLcd", freq))),
               GetLoFreq(m))

SetLnbFreqKeepingLimits(m, lnbFreq) == LcdSetValue(m, "lnbLcd", lnbFreq)

SetLnbFreq(m, lnbFreq) == UpdateLimits(LcdSetValue(m, "lnbLcd", lnbFreq))

OnFrequencyChangedSignalFirst(m) ==
  OnLoChanged(SetCenterFreq(
    MsEmit(m, [sig |-> "frequencyChanged", freq |-> m.fcLcd.value]),
    m.fcLcd.value))

OnFrequencyChanged(m) ==
  OnLoChanged(MsEmit(SetCenterFreq(m, m.fcLcd.value),
                     [sig |-> "frequencyChanged", freq |-> m.fcLcd.value]))

MainSpectrumOnNewCenterFreq(m, freq) ==
  UpdateLimits(LcdSetValue(m, "fcLcd", freq))

OnLnbFrequencyChanged(m) ==
  MsEmit(SetLnbFreq(m, m.lnbLcd.value),
         [sig |-> "lnbFrequencyChanged", freq |-> m.lnbLcd.value])

OnWfLoChanged(m) ==
  LET Report(a) == MsEmit(a, [sig |-> "loChanged", lo |-> GetLoFreq(a)])
  IN Report(LcdSetValue(m, "loLcd", m.wf.filterOffset + GetCenterFreq(m)))

Skewnesses == {"SYMMETRIC", "LOWER", "UPPER"}

LowerSideBand(m) == m.filterSkewness \in {"SYMMETRIC", "LOWER"}

UpperSideBand(m) == m.filterSkewness \in {"SYMMETRIC", "UPPER"}

(* setDemodRanges as setFilterSkewness and setSampleRate call it *)
SetDemodRanges(m, freq) ==
  [m EXCEPT !.wf.demodRanges =
     <<IF LowerSideBand(m) THEN -(freq \div 2) ELSE 1, 1, 1,
       IF UpperSideBand(m) THEN freq \div 2 ELSE 1,
       m.filterSkewness = "SYMMETRIC">>]

HiLowCut(m, freq) ==
  <<IF LowerSideBand(m) THEN -(freq \div 2) ELSE 0,
    IF UpperSideBand(m) THEN freq \div 2 ELSE 0>>

SetFilterBandwidth(m, bw) ==
  IF m.bandwidth # bw
    THEN MsEmit([m EXCEPT !.wf.cuts = HiLowCut(m, bw), !.bandwidth = bw],
                [sig |-> "setHiLowCutFrequencies", cuts |-> HiLowCut(m, bw)])
    ELSE m

SetFilterSkewness(m, skw) ==
  IF skw # m.filterSkewness
    THEN LET Ranges(a) == SetDemodRanges(a, a.cachedRate)
             Bandwidth(a) == SetFilterBandwidth([a EXCEPT !.bandwidth = 0],
                                                m.bandwidth)
         IN MsEmit(Bandwidth(Ranges([m EXCEPT !.filterSkewness = skw])),
                   [sig |-> "bandwidthChanged"])
    ELSE m

SetZoomKeepingSpan(m, zoom) ==
  IF zoom > 0 THEN [m EXCEPT !.zoom = zoom] ELSE m

SetZoom(m, zoom) ==
  IF zoom > 0
    THEN MsEmit([m EXCEPT !.zoom = zoom, !.wf.span = m.cachedRate \div zoom],
                [sig |-> "setSpanFreq", span |-> m.cachedRate \div zoom])
    ELSE m

SetSampleRate(m, rate) ==
  IF m.cachedRate # rate
    THEN LET Waterfall(a) ==
               MsEmit([a EXCEPT !.wf.sampleRate = rate,
                                !.wf.span = rate \div a.zoom],
                      [sig |-> "setSpanFreq", span |-> rate \div a.zoom])
             LoMin(a) == LcdSetMin(a, "loLcd", -(rate \div 2) + GetCenterFreq(a))
             LoMax(a) == LcdSetMax(a, "loLcd", rate \div 2 + GetCenterFreq(a))
             Cached(a) == [a EXCEPT !.cachedRate = rate]
         IN Cached(LoMax(LoMin(Waterfall(SetDemodRanges(m, rate)))))
    ELSE m

OnWfBandwidthChanged(m, min, max) ==
  MsEmit(SetFilterBandwidth(
           m, (IF m.filterSkewness = "SYMMETRIC" THEN 1 ELSE 2) * (max - min)),
         [sig |-> "bandwidthChanged"])

(* The members and widgets as the constructor finds them, then the        *)
(* constructor's setCenterFreq(0).                                        *)
MsMembers(minFreq, maxFreq) ==
  [fcLcd |-> [value |-> 0, min |-> -FreqCap, max |-> FreqCap],
   loLcd |-> [value |-> 0, min |-> -FreqCap, max |-> FreqCap],
   lnbLcd |-> [value |-> 0, min |-> -FreqCap, max |-> FreqCap],
   minFreq |-> minFreq, maxFreq |-> maxFreq, cachedRate |-> 0, zoom |-> 1,
   bandwidth |-> 0, filterSkewness |-> "SYMMETRIC",
   wf |-> [centerFreq |-> <<0, 0>>, freqUnits |-> 1, filterOffset |-> 0,
           cuts |-> <<0, 0>>, demodRanges |-> <<0, 0, 0, 0, TRUE>>,
           sampleRate |-> 0, span |-> 0],
   out |-> <<>>]

MainSpectrumConstructed(minFreq, maxFreq) ==
  SetCenterFreq(MsMembers(minFreq, maxFreq), 0)

MsInitFrom(m) ==
  /\ mainSpectrum = [m EXCEPT !.out = <<>>]
  /\ msOut = m.out
  /\ msOp = [name |-> "MainSpectrum"]

MsIdle == MsInitFrom(MainSpectrumConstructed(0, MaxFreq))

MsInit ==
  \E max \in {0, MaxFreq} : MsInitFrom(MainSpectrumConstructed(0, max))

MsFreqs == {-1, 1, MaxFreq - 1, MaxFreq + 1}

MsLnbValues == {-1, 0, 1}

MsRates == {0, 2 * MaxRate - 1}

MsBandwidths == 0 .. MaxRate + 1

MsZooms == 0 .. MaxRate

MsDid(o) == msOp' = o

DoSetFrequencyLimits ==
  \E min \in {0, 1}, max \in {MaxFreq - 1, MaxFreq} :
    /\ MsBecomes(SetFrequencyLimits(MsCur, min, max))
    /\ MsDid([name |-> "setFrequencyLimits", min |-> min, max |-> max])

DoSetLnbFreq ==
  \E f \in MsLnbValues :
    /\ MsBecomes(SetLnbFreq(MsCur, f))
    /\ MsDid([name |-> "setLnbFreq", freq |-> f])

LnbLcdEdited ==
  \E f \in MsLnbValues :
    /\ f # mainSpectrum.lnbLcd.value
    /\ MsBecomes(LcdSetValue(MsCur, "lnbLcd", f))
    /\ MsDid([name |-> "onLnbFrequencyChanged", freq |-> f])

DoSetCenterFreq ==
  \E f \in MsFreqs :
    /\ MsBecomes(SetCenterFreq(MsCur, f))
    /\ MsDid([name |-> "setCenterFreq", freq |-> f])

WfNewCenterFreq ==
  \E f \in MsFreqs :
    /\ MsBecomes(MainSpectrumOnNewCenterFreq(MsCur, f))
    /\ MsDid([name |-> "onNewCenterFreq", freq |-> f])

FcLcdEdited ==
  \E f \in MsFreqs :
    /\ f # mainSpectrum.fcLcd.value
    /\ mainSpectrum.fcLcd.min <= f /\ f <= mainSpectrum.fcLcd.max
    /\ MsBecomes(LcdSetValue(MsCur, "fcLcd", f))
    /\ MsDid([name |-> "onFrequencyChanged", freq |-> f])

LoLcdEdited ==
  \E f \in MsFreqs :
    /\ f # mainSpectrum.loLcd.value
    /\ mainSpectrum.loLcd.min <= f /\ f <= mainSpectrum.loLcd.max
    /\ MsBecomes(LcdSetValue(MsCur, "loLcd", f))
    /\ MsDid([name |-> "onLoChanged", freq |-> f])

(* The waterfall's filter was dragged to a new offset: newDemodFreq *)
WfNewDemodFreq ==
  \E o \in {-1, 1} :
    /\ MsBecomes(OnWfLoChanged([MsCur EXCEPT !.wf.filterOffset = o]))
    /\ MsDid([name |-> "onWfLoChanged", offset |-> o])

DoSetSampleRate ==
  \E rate \in MsRates :
    /\ MsBecomes(SetSampleRate(MsCur, rate))
    /\ MsDid([name |-> "setSampleRate", rate |-> rate])

DoSetZoom ==
  \E zoom \in MsZooms :
    /\ MsBecomes(SetZoom(MsCur, zoom))
    /\ MsDid([name |-> "setZoom", zoom |-> zoom])

DoSetFilterBandwidth ==
  \E bw \in MsBandwidths :
    /\ MsBecomes(SetFilterBandwidth(MsCur, bw))
    /\ MsDid([name |-> "setFilterBandwidth", bw |-> bw])

DoSetFilterSkewness ==
  \E skw \in Skewnesses :
    /\ MsBecomes(SetFilterSkewness(MsCur, skw))
    /\ MsDid([name |-> "setFilterSkewness", skw |-> skw])

(* newFilterFreq: the waterfall reports the cut pair it holds, or a pair  *)
(* the user dragged the filter to.                                        *)
WfNewFilterFreq ==
  \E cuts \in {mainSpectrum.wf.cuts, <<-1, 1>>, <<0, 1>>} :
    /\ MsBecomes(OnWfBandwidthChanged(
         [MsCur EXCEPT !.wf.cuts = cuts], cuts[1], cuts[2]))
    /\ MsDid([name |-> "onWfBandwidthChanged",
              min |-> cuts[1], max |-> cuts[2]])

(***************************************************************************)
(* Specifications                                                          *)
(***************************************************************************)
vars ==
  <<ui, self, dialogConfig, waterfall, saved, out, op, runPc, runStops,
    exportPc, exportWarnings, exportedFile,
    fatObjects, FATs, fatPc, fatNdx, fatI, fatOut,
    rtConfig, rtObject, rtLoaded, rtPc,
    mainSpectrum, msOut, msOp>>

Init == DlgInit /\ ExportInit /\ FatIdle /\ RtIdle /\ MsIdle

Rest == UNCHANGED <<exportVars, fatVars, rtVars, msVars>>

(* Scan control and the persisted sample rate. *)
Next ==
  \/ RunBegin /\ Rest
  \/ DeviceActivated /\ Rest
  \/ ScanClicked /\ Rest
  \/ DoSetRunning /\ Rest
  \/ DoSetBannedDevice /\ Rest
  \/ DoSetMinBwForZoom /\ Rest
  \/ SampleRateEdited /\ Rest

Spec == Init /\ [][Next]_vars

(* Sweep frames and zoom. *)
NextZoom ==
  \/ RunBegin /\ Rest
  \/ RangeStartEdited /\ Rest
  \/ RangeEndEdited /\ Rest
  \/ DoSetMinBwForZoom /\ Rest
  \/ DoFeed /\ Rest
  \/ ZoomChanged /\ Rest

SpecZoom == Init /\ [][NextZoom]_vars

(* Sweep frames while the user zooms, with the range left alone. *)
NextFeed ==
  \/ RunBegin /\ Rest
  \/ DoSetMinBwForZoom /\ Rest
  \/ DoFeed /\ Rest
  \/ ZoomChanged /\ Rest

SpecFeed == Init /\ [][NextFeed]_vars

(* Devices and their gains. *)
NextGains ==
  \/ RunBegin /\ Rest
  \/ DeviceActivated /\ Rest
  \/ GainEdited /\ Rest
  \/ LnbEdited /\ Rest

SpecGains == Init /\ [][NextGains]_vars

(* The life of run(). *)
NextRun ==
  \/ RunBegin /\ Rest
  \/ RunExecReturns /\ Rest
  \/ RunSaveConfig /\ Rest
  \/ RunEmitStop /\ Rest
  \/ DeviceActivated /\ Rest
  \/ LnbEdited /\ Rest
  \/ FullRangeClicked /\ Rest
  \/ PaletteActivated /\ Rest
  \/ StrategySelected /\ Rest
  \/ DoSetRunning /\ Rest

SpecRun == Init /\ [][NextRun]_vars

(* Export of the saved spectrum. *)
NextExport ==
  \/ RunBegin /\ Rest
  \/ DoFeed /\ Rest
  \/ OnExportBegin /\ UNCHANGED <<fatVars, rtVars, msVars>>
  \/ ExportDialogAcceptedWritable /\ UNCHANGED <<fatVars, rtVars, msVars>>
  \/ ExportDialogAcceptedUnwritable /\ UNCHANGED <<fatVars, rtVars, msVars>>
  \/ ExportDialogCancelled /\ UNCHANGED <<fatVars, rtVars, msVars>>

SpecExport == Init /\ [][NextExport]_vars

SpecExportFair ==
  /\ SpecExport
  /\ WF_vars((ExportDialogAcceptedWritable \/ ExportDialogCancelled)
               /\ UNCHANGED <<fatVars, rtVars, msVars>>)

(* Band plans. *)
InitFAT == DlgIdle /\ ExportInit /\ FatInit /\ RtIdle /\ MsIdle

NextFAT ==
  \/ FatStart /\ UNCHANGED <<dlgVars, exportVars, rtVars, msVars>>
  \/ FatTable /\ UNCHANGED <<dlgVars, exportVars, rtVars, msVars>>
  \/ FatBand /\ UNCHANGED <<dlgVars, exportVars, rtVars, msVars>>

SpecFAT == InitFAT /\ [][NextFAT]_vars

(* Configuration round trip. *)
InitConfig == DlgIdle /\ ExportInit /\ FatIdle /\ RtInit /\ MsIdle

NextConfig ==
  \/ RtSetGain /\ UNCHANGED <<dlgVars, exportVars, fatVars, msVars>>
  \/ RtSerialize /\ UNCHANGED <<dlgVars, exportVars, fatVars, msVars>>
  \/ RtDeserialize /\ UNCHANGED <<dlgVars, exportVars, fatVars, msVars>>

SpecConfig == InitConfig /\ [][NextConfig]_vars

(* The frequency range and the LNB offset. *)
NextRanges ==
  \/ RunBegin /\ Rest
  \/ DeviceActivated /\ Rest
  \/ LnbEdited /\ Rest
  \/ LnbEditedFar /\ Rest
  \/ FullRangeClicked /\ Rest
  \/ RangeStartEdited /\ Rest
  \/ RangeEndEdited /\ Rest

SpecRanges == Init /\ [][NextRanges]_vars

(* Sweep frames while the user pans, between changes of the range. *)
NextPan ==
  \/ RunBegin /\ Rest
  \/ FullRangeClicked /\ Rest
  \/ RangeStartEdited /\ Rest
  \/ RangeEndEdited /\ Rest
  \/ DoSetMinBwForZoom /\ Rest
  \/ DoFeed /\ Rest
  \/ CenterFreqChanged /\ Rest

SpecPan == Init /\ [][NextPan]_vars

(* Tuning of the main spectrum: centre, LO and LNB frequencies. *)
InitMS == DlgIdle /\ ExportInit /\ FatIdle /\ RtIdle /\ MsInit

MsRest == UNCHANGED <<dlgVars, exportVars, fatVars, rtVars>>

NextTuning ==
  \/ DoSetFrequencyLimits /\ MsRest
  \/ DoSetLnbFreq /\ MsRest
  \/ LnbLcdEdited /\ MsRest
  \/ DoSetCenterFreq /\ MsRest
  \/ WfNewCenterFreq /\ MsRest
  \/ FcLcdEdited /\ MsRest
  \/ LoLcdEdited /\ MsRest
  \/ WfNewDemodFreq /\ MsRest
  \/ DoSetSampleRate /\ MsRest

SpecTuning == InitMS /\ [][NextTuning]_vars

(* Filter and zoom of the main spectrum. *)
NextFilter ==
  \/ DoSetSampleRate /\ MsRest
  \/ DoSetZoom /\ MsRest
  \/ DoSetFilterBandwidth /\ MsRest
  \/ DoSetFilterSkewness /\ MsRest
  \/ WfNewFilterFreq /\ MsRest

SpecFilter == InitMS /\ [][NextFilter]_vars

(***************************************************************************)
(* Properties                                                              *)
(***************************************************************************)
OutOf(sig) == {i \in 1 .. Len(out) : out[i].sig = sig}

(* C1: every range a handled newZoomLevel event passes to setWfRange and   *)
(* reports through detailChanged lies within [getMinFreq(), getMaxFreq()], *)
(* in fixed-frequency mode as in sliding-range mode.                       *)
C1_ZoomRangeWithinBounds ==
  op.name = "onNewZoomLevel" =>
    /\ \A i \in OutOf("setWfRange") :
         /\ ui.rangeStartSpin.value <= out[i].min
         /\ out[i].max <= ui.rangeEndSpin.value
    /\ \A i \in OutOf("detailChanged") :
         /\ out[i].min[1] = 0 /\ ui.rangeStartSpin.value <= out[i].min[2]
         /\ out[i].max[1] = 0 /\ out[i].max[2] <= ui.rangeEndSpin.value

BanApplies ==
  self.bannedDevice # "" /\ SelectedDevice(Cur).desc = self.bannedDevice

(* C2: toggling the scan button on while the selected device is the banned *)
(* one emits neither start nor stop, shows the message box and leaves the  *)
(* button unchecked with text "Start scan"; start is emitted only when the *)
(* selected device is not the banned one.                                  *)
C2_BannedDeviceBlocksScan ==
  /\ (op.name = "onToggleScan" /\ op.checked /\ BanApplies) =>
       /\ out = <<[sig |-> "QMessageBox::critical"]>>
       /\ ~ui.scanChecked
       /\ ui.scanText = "Start scan"
  /\ OutOf("start") # {} =>
       op.name = "onToggleScan" /\ op.checked /\ ~BanApplies

C2_Witness ==
  /\ op.name = "onToggleScan" /\ op.checked /\ BanApplies
  /\ OutOf("QMessageBox::critical") # {}
  /\ self.bannedDevice = "B"

(* The value refreshGains gives the control of gain p of device dev. *)
Restored(cfg, dev, p) ==
  IF HasGain(cfg, dev.driver, p.name)
    THEN GetGain(cfg, dev.driver, p.name)
    ELSE p.def

(* C3: a gain change made while one device is selected leaves unchanged    *)
(* the value refreshGains restores for the gain of the same name of every  *)
(* other device (one with a different description).                        *)
C3_GainsPerDevice ==
  [][op'.name = "onGainChanged" =>
       \A d \in DOMAIN self.deviceMap :
         d # CurrentText(Cur) =>
           \A i \in 1 .. Len(self.deviceMap[d].gains) :
             self.deviceMap[d].gains[i].name = op'.gain =>
               Restored(dialogConfig', self.deviceMap[d],
                        self.deviceMap[d].gains[i])
                 = Restored(dialogConfig, self.deviceMap[d],
                            self.deviceMap[d].gains[i])]_vars

(* C4: after every feed call the SavedSpectrum holds the start frequency,  *)
(* end frequency and samples of that call, and nothing else changes it.    *)
C4_SavedIsLastFrame ==
  [][/\ op'.name = "feed" =>
          saved' = [start |-> op'.freqStart, end |-> op'.freqEnd,
                    data |-> op'.data]
     /\ op'.name # "feed" => saved' = saved]_vars

C4_Witness ==
  /\ op.name = "feed" /\ out = <<>>
  /\ self.fixedFreqMode
  /\ self.frames = 2
  /\ saved = [start |-> op.freqStart, end |-> op.freqEnd, data |-> <<2, 3>>]

OkBands(bands) ==
  LET ok == SelectSeq(bands, LAMBDA b : ~b.raises)
  IN [i \in 1 .. Len(ok) |-> [min |-> ok[i].min, max |-> ok[i].max]]

(* C5: a band whose deserialization raises is the only band left out: the  *)
(* other bands of its table are pushed in their order, newBandPlan is      *)
(* emitted for the table and the remaining tables are loaded.              *)
C5_MalformedBandsSkipped ==
  /\ Len(fatOut) = fatNdx
  /\ \A k \in 1 .. fatNdx :
       /\ FATs[k].name = fatObjects[k].name
       /\ FATs[k].bands = OkBands(fatObjects[k].bands)
       /\ fatOut[k] = [sig |-> "newBandPlan", name |-> fatObjects[k].name]
  /\ fatPc = "bands" =>
       FATs[fatNdx + 1].bands
         = OkBands(SubSeq(fatObjects[fatNdx + 1].bands, 1, fatI))
  /\ fatPc = "raised" => ~fatObjects[fatNdx + 1].isSet
  /\ fatPc = "done" => fatNdx = Len(fatObjects)

C5_Witness ==
  /\ fatPc = "done"
  /\ Len(fatObjects) = 2
  /\ Len(fatObjects[1].bands) = 2
  /\ fatObjects[1].bands[1].raises /\ ~fatObjects[1].bands[2].raises
  /\ Len(FATs[1].bands) = 1
  /\ Len(FATs[2].bands) >= 1

ExportFailed(o) == o.name = "QFileDialog::exec" /\ o.accepted /\ ~CanOpen(o.path)

ExportEnded(o) == o.name = "QFileDialog::exec" /\ (~o.accepted \/ CanOpen(o.path))

(* C6: every failed export shows one warning and presents the save dialog  *)
(* again; onExport returns exactly when an export succeeds or the user     *)
(* cancels, so it returns if the user eventually does one of the two.      *)
C6_ExportRetries ==
  /\ [][exportPc = "dialog" =>
          /\ ExportFailed(op') =>
               /\ exportWarnings' = exportWarnings + 1
               /\ out' = <<[sig |-> "QMessageBox::warning"]>>
               /\ exportPc' = "dialog"
          /\ ~ExportFailed(op') => exportWarnings' = exportWarnings
          /\ exportPc' = "idle" <=> ExportEnded(op')]_vars
  /\ (exportPc = "dialog") ~> (exportPc = "idle")

C6_Witness ==
  /\ exportPc = "idle"
  /\ exportWarnings >= 1
  /\ op.name = "QFileDialog::exec" /\ op.accepted /\ CanOpen(op.path)
  /\ exportedFile.path = op.path

(* C7: after refreshGains the panel holds one control per gain of the      *)
(* device, in the device's order and none of the previous device; each     *)
(* shows the persisted gain if the config has one, else the default; the   *)
(* "(device has no gains)" label exists exactly when there are no gains.   *)
C7_GainPanelRebuilt ==
  (op.name \in {"onDeviceChanged", "run"} /\ HasSelectedDevice(Cur)) =>
    LET dev == SelectedDevice(Cur)
    IN /\ Len(self.gainControls) = Len(dev.gains)
       /\ \A i \in 1 .. Len(dev.gains) :
            /\ i <= Len(self.gainControls)
            /\ self.gainControls[i].name = dev.gains[i].name
            /\ self.gainControls[i].gain
                 = Restored(dialogConfig, dev, dev.gains[i])
       /\ self.noGainLabel <=> (Len(dev.gains) = 0)
       /\ ui.gainGridLayout
            = IF Len(dev.gains) = 0 THEN <<"label">>
              ELSE [i \in 1 .. Len(dev.gains) + 1 |->
                      IF i <= Len(dev.gains) THEN "gain" ELSE "spacer"]

C7_Witness ==
  /\ op.name = "onDeviceChanged"
  /\ CurrentText(Cur) = "B"
  /\ Len(self.gainControls) = 1
  /\ self.gainControls[1].gain # SelectedDevice(Cur).gains[1].def
  /\ ~self.noGainLabel

ConfigUpToDate ==
  /\ dialogConfig.device = SelectedDevice(Cur).desc
  /\ dialogConfig.lnbFreq = ui.lnbDoubleSpinBox
  /\ dialogConfig.palette = self.paletteGradient
  /\ dialogConfig.palette = self.palettes[ui.paletteCombo]
  /\ dialogConfig.rangeMin = ui.rangeStartSpin.value
  /\ dialogConfig.rangeMax = ui.rangeEndSpin.value
  /\ dialogConfig.strategy = StrategyNames[ui.walkStrategyCombo]
  /\ dialogConfig.partitioning = PartitioningNames[ui.partitioningCombo]
  /\ dialogConfig.fullRange = ui.fullRangeCheck

(* C9: once the modal dialog has returned, run() copies the UI values into *)
(* the config and only then emits stop, exactly once, whether or not a     *)
(* scan is running.                                                        *)
C9_ConfigSavedBeforeStop ==
  /\ runPc = "saveConfig" => runStops = 0
  /\ runPc = "emit" => ConfigUpToDate /\ runStops = 0
  /\ op.name = "stop" =>
       /\ ConfigUpToDate
       /\ runStops = 1
       /\ out = <<[sig |-> "stop"]>>
       /\ runPc = "idle"

C9_Witness ==
  /\ op.name = "stop"
  /\ self.running
  /\ dialogConfig.device = "B"
  /\ dialogConfig.lnbFreq = 1
  /\ dialogConfig.palette = "Gqrx"
  /\ ~dialogConfig.fullRange

(* C10: dialogConfig->sampRate is never modified while a scan is running,  *)
(* and when setRunning(false) ends a run the sample-rate spin box shows    *)
(* dialogConfig->sampRate again.                                           *)
C10_SampRateKeptWhileRunning ==
  [][/\ self.running => dialogConfig'.sampRate = dialogConfig.sampRate
     /\ (self.running /\ ~self'.running) =>
          ui'.sampleRateSpin = dialogConfig'.sampRate]_vars

C10_Witness ==
  /\ op.name = "setRunning" /\ op.was /\ ~op.running
  /\ ui.sampleRateSpin = dialogConfig.sampRate
  /\ self.minBwForZoom # ui.sampleRateSpin

MsOutOf(sig) == {i \in 1 .. Len(msOut) : msOut[i].sig = sig}

(* C11: after setFrequencyLimits, setLnbFreq, an edit of the LNB LCD,      *)
(* setCenterFreq or onNewCenterFreq, the limits of the centre-frequency    *)
(* LCD are [minFreq - lnbFreq, maxFreq - lnbFreq] for the current minFreq, *)
(* maxFreq and value of the LNB LCD.                                       *)
C11_FcLimitsFollowLnb ==
  /\ mainSpectrum.fcLcd.min = mainSpectrum.minFreq - mainSpectrum.lnbLcd.value
  /\ mainSpectrum.fcLcd.max = mainSpectrum.maxFreq - mainSpectrum.lnbLcd.value

C11_Witness ==
  /\ msOp.name = "onLnbFrequencyChanged"
  /\ mainSpectrum.lnbLcd.value = 1
  /\ mainSpectrum.minFreq = 1
  /\ mainSpectrum.fcLcd.min = 0
  /\ mainSpectrum.fcLcd.max = mainSpectrum.maxFreq - 1
  /\ mainSpectrum.fcLcd.value = mainSpectrum.fcLcd.max

(* C12: setCenterFreq(f), for f within the limits of the centre LCD and a  *)
(* current LO offset within +/- cachedRate/2, leaves getLoFreq() as it     *)
(* was, leaves the LO LCD showing f + LO, and leaves the limits of the LO  *)
(* LCD at [f - cachedRate/2, f + cachedRate/2].                            *)
C12_SetCenterFreqKeepsLo ==
  [][(/\ msOp'.name = "setCenterFreq"
      /\ mainSpectrum.fcLcd.min <= msOp'.freq
      /\ msOp'.freq <= mainSpectrum.fcLcd.max
      /\ Abs(GetLoFreq(mainSpectrum)) <= mainSpectrum.cachedRate \div 2)
     => /\ GetLoFreq(mainSpectrum') = GetLoFreq(mainSpectrum)
        /\ mainSpectrum'.loLcd.value = msOp'.freq + GetLoFreq(mainSpectrum)
        /\ mainSpectrum'.loLcd.min
             = msOp'.freq - mainSpectrum'.cachedRate \div 2
        /\ mainSpectrum'.loLcd.max
             = msOp'.freq + mainSpectrum'.cachedRate \div 2]_vars

C12_Witness ==
  /\ msOp.name = "setCenterFreq"
  /\ MsOutOf("frequencyChanged") # {}
  /\ mainSpectrum.fcLcd.value = msOp.freq
  /\ GetLoFreq(mainSpectrum) = 1
  /\ mainSpectrum.loLcd.value = msOp.freq + 1

(* C13: whenever the centre LCD changes, frequencyChanged(freq) comes      *)
(* after the waterfall's centre frequency and frequency units were set to  *)
(* freq and after the LCD limits were recomputed, and a loChanged follows  *)
(* it; after an edit of the centre LCD, freq is the LCD's new value and    *)
(* the last loChanged carries the current LO offset.                       *)
C13_FrequencyForwardingOrder ==
  /\ \A i \in MsOutOf("frequencyChanged") :
       /\ \E j \in MsOutOf("setCenterFreq") :
            j < i /\ msOut[j].freq = ToQuint64(msOut[i].freq)
       /\ \E j \in MsOutOf("setFreqUnits") :
            j < i /\ msOut[j].units = GetFrequencyUnits(msOut[i].freq)
       /\ \E j \in MsOutOf("updateLimits") : j < i
       /\ \E k \in MsOutOf("loChanged") : k > i
  /\ msOp.name = "onFrequencyChanged" =>
       /\ MsOutOf("frequencyChanged") # {}
       /\ \A i \in MsOutOf("frequencyChanged") :
            /\ msOut[i].freq = msOp.freq
            /\ msOut[i].freq = mainSpectrum.fcLcd.value
       /\ msOut[Len(msOut)]
            = [sig |-> "loChanged", lo |-> GetLoFreq(mainSpectrum)]

C13_Witness ==
  /\ msOp.name = "onFrequencyChanged"
  /\ MsOutOf("frequencyChanged") # {}
  /\ mainSpectrum.fcLcd.value = MaxFreq - 1
  /\ GetLoFreq(mainSpectrum) # 0

(* C16: the span last set on the waterfall is cachedRate / zoom (integer   *)
(* division) after any sequence of setZoom and setSampleRate; zoom is      *)
(* never 0, and setZoom(0) changes neither zoom nor the span.              *)
C16_SpanIsRateOverZoom ==
  /\ [](/\ mainSpectrum.zoom > 0
        /\ mainSpectrum.wf.span = mainSpectrum.cachedRate \div mainSpectrum.zoom
        /\ \A i \in MsOutOf("setSpanFreq") :
             msOut[i].span = mainSpectrum.cachedRate \div mainSpectrum.zoom)
  /\ [][(msOp'.name = "setZoom" /\ msOp'.zoom = 0)
          => /\ mainSpectrum'.zoom = mainSpectrum.zoom
             /\ mainSpectrum'.wf.span = mainSpectrum.wf.span
             /\ msOut' = <<>>]_vars

C16_Witness ==
  /\ msOp.name = "setZoom"
  /\ mainSpectrum.zoom = MaxRate
  /\ mainSpectrum.cachedRate = 2 * MaxRate - 1
  /\ mainSpectrum.wf.span = (2 * MaxRate - 1) \div MaxRate
  /\ MsOutOf("setSpanFreq") # {}

(* C17: when setFilterBandwidth(bw) has set the cut pair (lo, hi) on the   *)
(* waterfall and the waterfall reports that pair through                   *)
(* onWfBandwidthChanged(lo, hi), getBandwidth() is bw afterwards, for      *)
(* every bw and every skewness.                                            *)
C17_BandwidthRoundTrip ==
  [][(/\ msOp.name = "setFilterBandwidth"
      /\ msOut # <<>>
      /\ msOp'.name = "onWfBandwidthChanged"
      /\ <<msOp'.min, msOp'.max>> = mainSpectrum.wf.cuts)
     => GetBandwidth(mainSpectrum') = msOp.bw]_vars

(* C14: in fixed frequency mode setWfRange, called from feed or from       *)
(* onNewZoomLevel, leaves the waterfall's centre frequency, demodulator    *)
(* ranges, cut frequencies and horizontal zoom as they are and sets the    *)
(* waterfall's sample rate to minBwForZoom only when that differs from     *)
(* currBw; after any setWfRange currBw is the sample rate last set.        *)
C14_FixedModeKeepsCentre ==
  /\ [](OutOf("setWfRange") # {} => self.currBw = waterfall.sampleRate)
  /\ [][(/\ op'.name = "feed"
         /\ self.fixedFreqMode
         /\ \E i \in 1 .. Len(out') : out'[i].sig = "setWfRange")
        => /\ waterfall'.centerFreq = waterfall.centerFreq
           /\ waterfall'.demodRanges = waterfall.demodRanges
           /\ waterfall'.cuts = waterfall.cuts
           /\ waterfall'.locked = waterfall.locked
           /\ waterfall'.span = waterfall.span
           /\ waterfall'.fftCenter = waterfall.fftCenter
           /\ waterfall'.sampleRate =
                IF self.minBwForZoom # self.currBw
                  THEN self.minBwForZoom ELSE waterfall.sampleRate]_vars
  /\ [][(op'.name = "onNewZoomLevel" /\ self'.fixedFreqMode)
        => /\ waterfall'.centerFreq = waterfall.centerFreq
           /\ waterfall'.demodRanges = waterfall.demodRanges
           /\ waterfall'.cuts = waterfall.cuts
           /\ waterfall'.locked = waterfall.locked
           /\ \/ /\ waterfall'.span = op'.span
                 /\ waterfall'.fftCenter = op'.fftCenter
              \/ /\ \E i \in 1 .. Len(out') : out'[i].sig = "newZoomLevel"
                 /\ waterfall'.span = waterfall.sampleRate
                 /\ waterfall'.fftCenter = 0
           /\ waterfall'.sampleRate =
                IF self.minBwForZoom # self.currBw
                  THEN self.minBwForZoom ELSE waterfall.sampleRate]_vars

C14_Witness ==
  /\ op.name = "feed"
  /\ self.fixedFreqMode
  /\ OutOf("setWfRange") # {}
  /\ waterfall.sampleRate = self.minBwForZoom
  /\ op.freqEnd - op.freqStart # waterfall.sampleRate
  /\ waterfall.centerFreq # CDiv(op.freqStart + op.freqEnd, 2)

(* C18: a newZoomLevel event that arrives while adjustingRange is set, be  *)
(* it during the setWfRange of feed or inside an onNewZoomLevel that       *)
(* resets the horizontal zoom, changes neither fixedFreqMode nor the       *)
(* waterfall range and emits no detailChanged; each handled zoom event     *)
(* emits detailChanged exactly once; adjustingRange is FALSE whenever no   *)
(* handler is executing.                                                   *)
C18_ZoomNotReentrant ==
  /\ [](/\ ~self.adjustingRange
        /\ op.name = "onNewZoomLevel" =>
             /\ Cardinality(OutOf("detailChanged")) = 1
             /\ Cardinality(OutOf("setWfRange")) = 1
             /\ \A i \in OutOf("detailChanged") :
                  out[i].fixed = self.fixedFreqMode
        /\ op.name = "feed" =>
             /\ OutOf("detailChanged") = {}
             /\ Cardinality(OutOf("setWfRange")) <= 1
             /\ \A i \in OutOf("setWfRange") :
                  out[i].min = op.freqStart /\ out[i].max = op.freqEnd)
  /\ [][op'.name = "feed" => self'.fixedFreqMode = self.fixedFreqMode]_vars

C18_Witness ==
  /\ op.name = "feed"
  /\ OutOf("newZoomLevel") # {}
  /\ OutOf("detailChanged") = {}
  /\ self.frames = MaxFrames
  /\ ~self.fixedFreqMode
  /\ waterfall.span = op.freqEnd - op.freqStart

(* C15: after setRanges, for every device range and every LNB offset, the  *)
(* limits of both range spin boxes are the device limits minus the LNB     *)
(* offset, each clamped into [0, 2e9], the range start and the range end   *)
(* lie within those limits, and range start <= range end.                  *)
C15_RangesClamped ==
  (op.name \in {"onLnbOffsetChanged", "onDeviceChanged"}
     /\ HasSelectedDevice(Cur)) =>
    LET dev == SelectedDevice(Cur)
        lo == Clamp(dev.minFreq - ui.lnbDoubleSpinBox, 0, 2000000000)
        hi == Clamp(dev.maxFreq - ui.lnbDoubleSpinBox, 0, 2000000000)
    IN /\ ui.rangeStartSpin.min = lo /\ ui.rangeStartSpin.max = hi
       /\ ui.rangeEndSpin.min = lo /\ ui.rangeEndSpin.max = hi
       /\ lo <= ui.rangeStartSpin.value
       /\ ui.rangeStartSpin.value <= ui.rangeEndSpin.value
       /\ ui.rangeEndSpin.value <= hi

C15_Witness ==
  /\ op.name = "onLnbOffsetChanged"
  /\ HasSelectedDevice(Cur)
  /\ SelectedDevice(Cur).minFreq - ui.lnbDoubleSpinBox < 0
  /\ SelectedDevice(Cur).maxFreq - ui.lnbDoubleSpinBox > 0
  /\ ~ui.fullRangeCheck
  /\ ui.rangeStartSpin.min = 0
  /\ ui.rangeStartSpin.value < ui.rangeEndSpin.value

(* C19: after any sequence of scan-button toggles and setRunning calls the *)
(* text of the scan button is "Stop" exactly when the button is checked    *)
(* and "Start scan" exactly when it is not.                                *)
C19_ScanTextFollowsChecked ==
  /\ ui.scanText = "Stop" <=> ui.scanChecked
  /\ ui.scanText = "Start scan" <=> ~ui.scanChecked

(* C20: whenever the full-range box is checked and a device is selected,   *)
(* after onFullRangeChanged or onDeviceChanged the range start spin is at  *)
(* its minimum and the range end spin at its maximum, for every LNB offset *)
(* and every previous range.                                               *)
C20_FullRangeSelectsAll ==
  (op.name \in {"onFullRangeChanged", "onDeviceChanged"}
     /\ ui.fullRangeCheck /\ HasSelectedDevice(Cur)) =>
    /\ ui.rangeStartSpin.value = ui.rangeStartSpin.min
    /\ ui.rangeEndSpin.value = ui.rangeEndSpin.max

(* C21: for every newCenterFreq event, every currBw and every minBwForZoom *)
(* the range [min, max] that onNewCenterFreq emits through detailChanged   *)
(* satisfies getMinFreq() <= min <= max <= getMaxFreq(), and the           *)
(* waterfall's centre is moved, to the midpoint of that range, only when   *)
(* the requested span touches the left or the right border.                *)
C21_PanRangeWithinBounds ==
  /\ [](op.name = "onNewCenterFreq" =>
          /\ Cardinality(OutOf("detailChanged")) = 1
          /\ \A i \in OutOf("detailChanged") :
               /\ out[i].min[1] = 0 /\ out[i].max[1] = 0
               /\ ui.rangeStartSpin.value <= out[i].min[2]
               /\ out[i].min[2] <= out[i].max[2]
               /\ out[i].max[2] <= ui.rangeEndSpin.value)
  /\ [][(op'.name = "onNewCenterFreq"
           /\ \E i \in 1 .. Len(out') : out'[i].sig = "setCenterFreq")
        => /\ \/ op'.freq - CDiv(self.currBw, 2) <= ui.rangeStartSpin.value
              \/ op'.freq + CDiv(self.currBw, 2) >= ui.rangeEndSpin.value
           /\ \A i \in 1 .. Len(out') :
                out'[i].sig = "detailChanged" =>
                  waterfall'.centerFreq
                    = CDiv(out'[i].min[2] + out'[i].max[2], 2)]_vars

====
